---------------------------- MODULE Spec2Model ----------------------------
(***************************************************************************)
(* State-machine model of product-fidelity-eval.                           *)
(*                                                                         *)
(*   batch loop          src/batch/pipeline.py  (process_image, run_batch) *)
(*   batch endpoints     src/server.py  (batch_start, batch_cancel,        *)
(*                       _store_results)                                   *)
(*   conversational loop src/product_fidelity_agent (agent.py, callbacks,  *)
(*                       tools/gecko.py, tools/gemini.py)                  *)
(*                                                                         *)
(* Scores are tenths (0.7 is 7).  A text (description, prompt, verdict     *)
(* list) is a sequence of string tokens; a service answer is a tagged copy *)
(* of the request it was given, so that two answers are equal only when     *)
(* the requests were.                                                      *)
(***************************************************************************)
EXTENDS Integers, Sequences, FiniteSets, TLC

\* ---------------------------------------------------------------- constants

MAX_RETRIES == 3

PASSING_THRESHOLD == 7

SemPermits == 5

\* RUBRIC_MAX_RETRIES of pipeline.py and gecko.py
RUBRIC_MAX_RETRIES == 3

\* The score field of a service answer that carries no score (Python None).
NoneScore == -1

\* ------------------------------------------------------------------- bounds

\* URIs of one batch whose images may get every answer and every failure.
MaxUris == 1

\* batch_start requests accepted in one behaviour.
MaxBatches == 2

\* URIs of the batch that has more tasks than semaphore permits.
SemUris == SemPermits + 1

\* Products evaluated in one conversational session.
MaxProducts == 2

\* ---------------------------------------------------------------- variables

VARIABLES
    mode,            \* "batch": the batch endpoints run; "conv": the agent runs
    stub,            \* per reference image: the answers the rubric service may
                     \* give and the service calls that may raise
    batchSizes,      \* how many URIs a batch_start request may resolve to
    maxBatches,      \* the batch_start requests that will be accepted
    uris,            \* image_uris of the current run_batch
    tasks,           \* the process_image tasks of the current batch
    sem,             \* value of pipeline.sem
    progress_queue,  \* the events put on the current batch's queue
    runBatch,        \* the run_batch task of each batch
    batch_state,     \* server._batch_state
    storers,         \* batches whose _store_results has not yet resumed
    state,           \* the session state of the conversational agent
    conv,            \* position of the conversational pipeline
    escalate,        \* tool_context.actions.escalate of the current event
    decisions,       \* what the check_threshold call just made read and returned
    rubric,          \* the rubric generation loop of one evaluation
    response         \* what the server answered last, where a client records it

batchVars == <<uris, tasks, sem, progress_queue, runBatch, batch_state, storers>>

convVars == <<state, conv, escalate, decisions>>

envVars == <<mode, stub, batchSizes, maxBatches>>

vars == <<envVars, batchVars, convVars, rubric, response>>

\* -------------------------------------------------------------------- texts

NoneText == <<"<None>">>

Truthy(t) == t # <<>> /\ t # NoneText

\* Path(uri).stem
Stem(uri) == uri.stem

\* The URI a request names in position i: sku1.png, sku2.png, ... and, past
\* the permits of the semaphore, sku1.jpg, ... in the same folder.
UriAt(i) ==
    IF i <= SemPermits
    THEN [dir |-> "gs://bucket/in", stem |-> "sku" \o ToString(i), ext |-> "png"]
    ELSE [dir |-> "gs://bucket/in", stem |-> "sku" \o ToString(i - SemPermits), ext |-> "jpg"]

UriText(uri) == <<uri.dir, uri.stem, uri.ext>>

\* response.text of the description model for one reference image
Describe(uri) == <<"description of">> \o UriText(uri)

\* "\n".join(f"- {v}" for v in failing)
RECURSIVE JoinVerdicts(_)
JoinVerdicts(failing) ==
    IF failing = <<>> THEN <<>>
    ELSE IF Len(failing) = 1 THEN <<"- ", failing[1]>>
    ELSE <<"- ", failing[1], "\n">> \o JoinVerdicts(Tail(failing))

\* The prompt refine_description / _refine builds from its two arguments.
RefinementPrompt(original_description, failing_verdicts) ==
    <<"FAILING ATTRIBUTES:">> \o failing_verdicts
        \o <<"ORIGINAL DESCRIPTION:">> \o original_description

\* response.text of the description model for a refinement prompt
Refine(original_description, failing_verdicts) ==
    <<"refined from">> \o RefinementPrompt(original_description, failing_verdicts)

\* The instruction _generate_image sends with the reference image.
GenerationPrompt(attempt, current_description, failing_verdicts_text) ==
    IF attempt > 1 /\ Truthy(current_description) /\ Truthy(failing_verdicts_text)
    THEN <<"RECONTEXTUALIZE", "IMPORTANT:">> \o failing_verdicts_text
             \o <<"Use this refined product description as guidance:">>
             \o current_description
    ELSE <<"RECONTEXTUALIZE">>

\* gs://{BUCKET_NAME}/generated/{sku_id}/attempt_{attempt}_{image_id}.png
CandidateUri(sku_id, attempt) == <<"generated", sku_id, "attempt_" \o ToString(attempt)>>

\* ------------------------------------------------------------------- scorer

Verdict(text, verdict) == [text |-> text, verdict |-> verdict]

\* Variant of the judgment test: only an explicit False fails.
IsNotFalse(v) == v.verdict \notin {"False", "false", "FALSE"}

\* str(raw_verdict).lower() == "true"
IsPass(v) == v.verdict \in {"True", "true", "TRUE"}

RECURSIVE PassingOf(_)
PassingOf(verdicts) ==
    IF verdicts = <<>> THEN <<>>
    ELSE (IF IsPass(verdicts[1]) THEN <<verdicts[1].text>> ELSE <<>>)
             \o PassingOf(Tail(verdicts))

RECURSIVE FailingOf(_)
FailingOf(verdicts) ==
    IF verdicts = <<>> THEN <<>>
    ELSE (IF IsPass(verdicts[1]) THEN <<>> ELSE <<verdicts[1].text>>)
             \o FailingOf(Tail(verdicts))

\* The answers of the rubric service used as inputs: [score, verdicts].
AnswerHigh == [score |-> 9,
               verdicts |-> <<Verdict("shape", "True"), Verdict("color", "True")>>]

AnswerEdge == [score |-> 7,
               verdicts |-> <<Verdict("shape", "True"), Verdict("logo", "False")>>]

AnswerMid == [score |-> 5,
              verdicts |-> <<Verdict("color", "False"), Verdict("shape", "True")>>]

AnswerLow == [score |-> 2,
              verdicts |-> <<Verdict("logo", "False"), Verdict("color", "False")>>]

AnswerNothing == [score |-> NoneScore, verdicts |-> <<>>]

\* data.rubric_verdicts is None
NoneRubricVerdicts == <<Verdict("<None>", "<None>")>>

\* No score, no verdict list.
AnswerMissing == [score |-> NoneScore, verdicts |-> NoneRubricVerdicts]

\* No score, but verdicts.
AnswerNoScore == [score |-> NoneScore,
                  verdicts |-> <<Verdict("shape", "True"), Verdict("color", "False")>>]

\* A score and an empty verdict list; a score and no verdict list.
AnswerBare == [score |-> 3, verdicts |-> <<>>]

AnswerScoreOnly == [score |-> 8, verdicts |-> NoneRubricVerdicts]

\* Judgments that are True, None, the string "true" and False, two of each
\* kind of outcome so that the order inside each list shows.
AnswerUnjudged == [score |-> 4,
                   verdicts |-> <<Verdict("shape", "True"), Verdict("logo", "None"),
                                  Verdict("color", "true"), Verdict("material", "False")>>]

FullStub == {AnswerHigh, AnswerEdge, AnswerMid, AnswerLow, AnswerNothing}

SmallStub == {AnswerHigh, AnswerMid}

\* Every combination of score and verdict list present, empty or missing.
ScorerStub == {AnswerHigh, AnswerMid, AnswerNothing, AnswerMissing, AnswerNoScore,
               AnswerBare, AnswerScoreOnly, AnswerUnjudged}

AllAnswers == FullStub \cup ScorerStub

\* if verdicts:
HasVerdicts(verdicts) == verdicts # <<>> /\ verdicts # NoneRubricVerdicts

\* Variant of the scorer: a missing score is an error whatever the verdicts.
MissingScoreIsError(answer) == answer.score = NoneScore

\* Variant of the scorer: a missing score is always turned into 0.
NeverInfrastructureError(answer) == FALSE

\* score is None and not verdicts
InfrastructureError(answer) == answer.score = NoneScore /\ ~HasVerdicts(answer.verdicts)

\* What the scorer makes of an answer that is not an infrastructure error.
Scored(answer) ==
    LET verdicts == IF HasVerdicts(answer.verdicts) THEN answer.verdicts ELSE <<>>
        passing  == PassingOf(verdicts)
        failing  == FailingOf(verdicts)
    IN  [score            |-> IF answer.score # NoneScore THEN answer.score ELSE 0,
         passing_verdicts |-> passing,
         failing_verdicts |-> failing,
         total_verdicts   |-> Len(passing) + Len(failing),
         passing_count    |-> Len(passing),
         failing_count    |-> Len(failing)]


\* ------------------------------------------------------- process_image tasks

NewTask(uri) ==
    [pc                    |-> "created",
     uri                   |-> uri,
     sku_id                |-> Stem(uri),
     attempt               |-> 0,
     description           |-> NoneText,
     original_description  |-> NoneText,
     failing_verdicts_text |-> NoneText,
     candidate_uri         |-> <<>>,
     evaluation_history    |-> <<>>,
     result                |-> <<>>,
     calls                 |-> <<>>]

\* One request to an external service, as the task issued it.
Call(op, attempt, text, aux) == [op |-> op, attempt |-> attempt, text |-> text, aux |-> aux]

\* The task is suspended in a service call made inside the try block.
InTry(t) == t.pc \in {"describe", "generate", "evaluate", "refine"}

\* The task holds a permit of the semaphore.
InsideSem(t) == InTry(t)

\* The task has ended: it returned a record, or CancelledError left it.
Ended(t) == t.pc \in {"done", "cancelled"}

\* Variants of the threshold test: strictly above, and two tenths too low.
StrictlyAbove(score) == score > PASSING_THRESHOLD

NearThreshold(score) == score >= PASSING_THRESHOLD - 2

\* result["score"] >= PASSING_THRESHOLD
MeetsThreshold(score) == score >= PASSING_THRESHOLD

\* Variants of the loop range: one attempt more, one attempt less.
OneAttemptMore == 1..(MAX_RETRIES + 1)

OneAttemptLess == 1..(MAX_RETRIES - 1)

\* for attempt in range(1, MAX_RETRIES + 1)
Attempts == 1..MAX_RETRIES

\* Variant of the test before the refiner: it is asked after every low score.
AlwaysRefines(attempt) == TRUE

\* if attempt < MAX_RETRIES: a refinement is asked for
AttemptsRemain(attempt) == attempt < MAX_RETRIES

\* Variant of the refiner's first argument: the description last used.
CurrentDescription(t) == t.description

\* The first argument process_image gives _refine.
RefineSource(t) == t.original_description

\* The prompt process_image gives _gecko_eval.
EvalPrompt(t) == t.description

HistoryEntry(attempt, scored, candidate_uri) ==
    [attempt          |-> attempt,
     score            |-> scored.score,
     passing_verdicts |-> scored.passing_verdicts,
     failing_verdicts |-> scored.failing_verdicts,
     image_uri        |-> candidate_uri]

\* The record process_image returns from the loop (passed or retries exhausted).
LoopResult(t, passed, score, attempts, history) ==
    [sku_id             |-> t.sku_id,
     passed             |-> passed,
     score              |-> score,
     attempts           |-> attempts,
     description        |-> t.original_description,
     candidate_uri      |-> t.candidate_uri,
     reference_uri      |-> t.uri,
     evaluation_history |-> history]

\* Variant of the except blocks: the record starts from an empty history.
ExceptResultWithoutHistory(t, error) ==
    [sku_id             |-> t.sku_id,
     passed             |-> FALSE,
     score              |-> 0,
     attempts           |-> 0,
     description        |-> <<>>,
     candidate_uri      |-> <<>>,
     reference_uri      |-> t.uri,
     evaluation_history |-> <<>>,
     error              |-> error]

\* The record the two except blocks return.
ExceptResult(t, error) ==
    [sku_id             |-> t.sku_id,
     passed             |-> FALSE,
     score              |-> 0,
     attempts           |-> Len(t.evaluation_history),
     description        |-> <<>>,
     candidate_uri      |-> <<>>,
     reference_uri      |-> t.uri,
     evaluation_history |-> t.evaluation_history,
     error              |-> error]

HasError(r) == "error" \in DOMAIN r

\* await progress_queue.put(event) by task p.  The queue is kept as what
\* each task put, in order, and what run_batch put; late counts the task
\* events put after a complete event.
Put(q, p, event) ==
    [q EXCEPT !.events[p] = Append(@, event),
              !.late = IF q.final # <<>> THEN @ + 1 ELSE @]

PutFinal(q, event) == [q EXCEPT !.final = Append(@, event)]

NewQueue(n) == [events |-> [i \in 1..n |-> <<>>], final |-> <<>>, late |-> 0]

\* task.done()
TaskDone(b) == runBatch[b].pc \in {"done", "cancelled", "failed"}

\* No cancellation is on its way to the tasks: a task that gather has
\* cancelled takes CancelledError at its next step, whatever its call returned.
NoCancelPending == \A b \in 1..MaxBatches : ~(runBatch[b].cancel /\ ~TaskDone(b))

\* The tasks gather created are first in the loop's ready queue: each takes
\* its first step before any service call of a sibling is seen to return.
AllStarted == \A q \in DOMAIN tasks : tasks[q].pc # "created"

\* Variant of the semaphore: acquire never waits.
NeverWaits(value) == TRUE

\* Semaphore.acquire returns at once when the value is positive.
CanAcquire(value) == value > 0

\* sem.acquire() succeeded: the running event is put and _describe is called.
Enter(t) ==
    [t EXCEPT !.pc = "describe",
              !.calls = Append(@, Call("describe", 0, UriText(t.uri), <<>>))]

\* First step of the task: asyncio starts the tasks gather created in order.
TaskStart(p) ==
    /\ mode = "batch"
    /\ p \in DOMAIN tasks
    /\ NoCancelPending
    /\ tasks[p].pc = "created"
    /\ \A q \in 1..(p - 1) : tasks[q].pc # "created"
    /\ IF CanAcquire(sem)
       THEN /\ sem' = sem - 1
            /\ tasks' = [tasks EXCEPT ![p] = Enter(@)]
            /\ progress_queue' =
                   Put(progress_queue, p, [sku |-> tasks[p].sku_id, status |-> "running"])
       ELSE /\ tasks' = [tasks EXCEPT ![p].pc = "wait_sem"]
            /\ UNCHANGED <<sem, progress_queue>>
    /\ UNCHANGED <<envVars, rubric, response, uris, runBatch, batch_state, storers,
                   convVars>>

\* A release woke the longest-waiting task, which now holds the permit.
SemAcquired(p) ==
    /\ mode = "batch"
    /\ p \in DOMAIN tasks
    /\ NoCancelPending
    /\ AllStarted
    /\ tasks[p].pc = "wait_sem"
    /\ \A q \in 1..(p - 1) : tasks[q].pc # "wait_sem"
    /\ CanAcquire(sem)
    /\ sem' = sem - 1
    /\ tasks' = [tasks EXCEPT ![p] = Enter(@)]
    /\ progress_queue' =
           Put(progress_queue, p, [sku |-> tasks[p].sku_id, status |-> "running"])
    /\ UNCHANGED <<envVars, rubric, response, uris, runBatch, batch_state, storers,
                   convVars>>

\* _generate_image(uri, sku_id, attempt, description, failing_verdicts_text)
CallGenerate(t) ==
    [t EXCEPT !.pc = "generate",
              !.calls = Append(@, Call("generate", t.attempt,
                                       GenerationPrompt(t.attempt, t.description,
                                                        t.failing_verdicts_text),
                                       <<>>))]

\* _describe returned: the description is kept and attempt 1 starts.
DescribeReturns(p) ==
    /\ mode = "batch"
    /\ p \in DOMAIN tasks
    /\ NoCancelPending
    /\ AllStarted
    /\ tasks[p].pc = "describe"
    /\ LET d == Describe(tasks[p].uri)
       IN  tasks' = [tasks EXCEPT ![p] =
               CallGenerate([@ EXCEPT !.description = d,
                                      !.original_description = d,
                                      !.failing_verdicts_text = NoneText,
                                      !.attempt = 1])]
    /\ UNCHANGED <<envVars, rubric, response, uris, sem, progress_queue, runBatch,
                   batch_state, storers, convVars>>

\* _generate_image returned the candidate's URI: _gecko_eval is called.
GenerateReturns(p) ==
    /\ mode = "batch"
    /\ p \in DOMAIN tasks
    /\ NoCancelPending
    /\ AllStarted
    /\ tasks[p].pc = "generate"
    /\ LET c == CandidateUri(tasks[p].sku_id, tasks[p].attempt)
       IN  tasks' = [tasks EXCEPT ![p] =
               [@ EXCEPT !.pc = "evaluate",
                         !.candidate_uri = c,
                         !.calls = Append(@, Call("evaluate", tasks[p].attempt,
                                                  EvalPrompt(tasks[p]), c))]]
    /\ UNCHANGED <<envVars, rubric, response, uris, sem, progress_queue, runBatch,
                   batch_state, storers, convVars>>

\* Variant of the task's return: the permit is kept.
FinishKeepsPermit(p, t, event, r) ==
    /\ tasks' = [tasks EXCEPT ![p] = [t EXCEPT !.pc = "done", !.result = <<r>>]]
    /\ progress_queue' = Put(progress_queue, p, event)
    /\ sem' = sem

\* The task returns record r after putting its terminal event; the permit
\* is released on the way out of `async with sem`.
Finish(p, t, event, r) ==
    /\ tasks' = [tasks EXCEPT ![p] = [t EXCEPT !.pc = "done", !.result = <<r>>]]
    /\ progress_queue' = Put(progress_queue, p, event)
    /\ sem' = sem + 1

\* The for loop takes its next attempt, or is exhausted: the run has failed.
Advance(p, t) ==
    IF t.attempt + 1 \in Attempts
    THEN /\ tasks' = [tasks EXCEPT ![p] = CallGenerate([t EXCEPT !.attempt = @ + 1])]
         /\ UNCHANGED <<sem, progress_queue>>
    ELSE LET history     == t.evaluation_history
             final_score == history[Len(history)].score
         IN  Finish(p, t,
                    [sku |-> t.sku_id, status |-> "failed", score |-> final_score,
                     attempt |-> MAX_RETRIES],
                    LoopResult(t, FALSE, final_score, MAX_RETRIES, history))

\* _gecko_eval returned or raised its infrastructure error: on a score, the
\* history entry is appended, then the run passes, refines or fails.
EvaluateReturns(p, answer) ==
    /\ mode = "batch"
    /\ p \in DOMAIN tasks
    /\ NoCancelPending
    /\ AllStarted
    /\ tasks[p].pc = "evaluate"
    /\ answer \in stub[p].answers
    /\ LET t       == tasks[p]
           result  == Scored(answer)
           history == Append(t.evaluation_history,
                             HistoryEntry(t.attempt, result, t.candidate_uri))
           fvt     == JoinVerdicts(result.failing_verdicts)
           t1      == [t EXCEPT !.evaluation_history = history]
       IN  IF InfrastructureError(answer)
           THEN Finish(p, t,
                       [sku |-> t.sku_id, status |-> "error",
                        message |-> "Evaluation infrastructure error"],
                       ExceptResult(t, "Evaluation infrastructure error"))
           ELSE IF MeetsThreshold(result.score)
           THEN Finish(p, t1,
                       [sku |-> t.sku_id, status |-> "passed",
                        score |-> result.score, attempt |-> t.attempt],
                       LoopResult(t1, TRUE, result.score, t.attempt, history))
           ELSE IF AttemptsRemain(t.attempt)
           THEN /\ tasks' = [tasks EXCEPT ![p] =
                       [t1 EXCEPT !.pc = "refine",
                                  !.failing_verdicts_text = fvt,
                                  !.calls = Append(@, Call("refine", t.attempt,
                                                           RefineSource(t1), fvt))]]
                /\ UNCHANGED <<sem, progress_queue>>
           ELSE Advance(p, [t1 EXCEPT !.failing_verdicts_text = fvt])
    /\ UNCHANGED <<envVars, rubric, response, uris, runBatch, batch_state, storers,
                   convVars>>

\* _refine returned: the next attempt generates from the refined description.
RefineReturns(p) ==
    /\ mode = "batch"
    /\ p \in DOMAIN tasks
    /\ NoCancelPending
    /\ AllStarted
    /\ tasks[p].pc = "refine"
    /\ LET t    == tasks[p]
           call == t.calls[Len(t.calls)]
       IN  Advance(p, [t EXCEPT !.description = Refine(call.text, call.aux)])
    /\ UNCHANGED <<envVars, rubric, response, uris, runBatch, batch_state, storers, convVars>>

\* Variant of the generator's failure: no image counts as a low score, the
\* refiner is asked while attempts remain.
NoImageConsumesAttempt(p) ==
    /\ mode = "batch"
    /\ p \in DOMAIN tasks
    /\ NoCancelPending
    /\ AllStarted
    /\ tasks[p].pc = "generate"
    /\ "no_image" \in stub[p].faults
    /\ IF AttemptsRemain(tasks[p].attempt)
       THEN /\ tasks' = [tasks EXCEPT ![p] =
                   [@ EXCEPT !.pc = "refine",
                             !.failing_verdicts_text = <<>>,
                             !.calls = Append(@, Call("refine", tasks[p].attempt,
                                                      RefineSource(tasks[p]), <<>>))]]
            /\ UNCHANGED <<sem, progress_queue>>
       ELSE Finish(p, tasks[p],
                   [sku |-> tasks[p].sku_id, status |-> "failed", score |-> 0,
                    attempt |-> MAX_RETRIES],
                   LoopResult(tasks[p], FALSE, 0, MAX_RETRIES, tasks[p].evaluation_history))
    /\ UNCHANGED <<envVars, rubric, response, uris, runBatch, batch_state, storers,
                   convVars>>

\* The response of the image model holds no inline image: _generate_image
\* raises RuntimeError, which the except block of process_image takes.
GenerateReturnsNoImage(p) ==
    /\ mode = "batch"
    /\ p \in DOMAIN tasks
    /\ NoCancelPending
    /\ AllStarted
    /\ tasks[p].pc = "generate"
    /\ "no_image" \in stub[p].faults
    /\ Finish(p, tasks[p],
              [sku |-> tasks[p].sku_id, status |-> "error",
               message |-> "No image was generated by the model."],
              ExceptResult(tasks[p], "No image was generated by the model."))
    /\ UNCHANGED <<envVars, rubric, response, uris, runBatch, batch_state, storers,
                   convVars>>

\* Variant of the error handling: an error of a service call ends the run
\* as failed.
ServiceRaisesCountsAsFailed(p) ==
    /\ mode = "batch"
    /\ p \in DOMAIN tasks
    /\ NoCancelPending
    /\ AllStarted
    /\ InTry(tasks[p])
    /\ tasks[p].pc \in stub[p].faults
    /\ Finish(p, tasks[p],
              [sku |-> tasks[p].sku_id, status |-> "failed", score |-> 0,
               attempt |-> tasks[p].attempt],
              LoopResult(tasks[p], FALSE, 0, tasks[p].attempt,
                         tasks[p].evaluation_history))
    /\ UNCHANGED <<envVars, rubric, response, uris, runBatch, batch_state, storers,
                   convVars>>

\* Variant of the error handling: no except Exception, the error leaves
\* the task and gather passes it on to run_batch.
ServiceRaisesEscapes(p) ==
    /\ mode = "batch"
    /\ p \in DOMAIN tasks
    /\ NoCancelPending
    /\ AllStarted
    /\ InTry(tasks[p])
    /\ tasks[p].pc \in stub[p].faults
    /\ tasks' = [tasks EXCEPT ![p].pc = "raised"]
    /\ sem' = sem + 1
    /\ runBatch' = [b \in DOMAIN runBatch |->
                        IF runBatch[b].pc = "gather"
                        THEN [runBatch[b] EXCEPT !.pc = "failed"]
                        ELSE runBatch[b]]
    /\ UNCHANGED <<envVars, rubric, response, uris, progress_queue, batch_state, storers, convVars>>

\* The awaited service call raised (a service error, no image generated):
\* except Exception.
ServiceRaises(p) ==
    /\ mode = "batch"
    /\ p \in DOMAIN tasks
    /\ NoCancelPending
    /\ AllStarted
    /\ InTry(tasks[p])
    /\ tasks[p].pc \in stub[p].faults
    /\ Finish(p, tasks[p],
              [sku |-> tasks[p].sku_id, status |-> "error", message |-> "service error"],
              ExceptResult(tasks[p], "service error"))
    /\ UNCHANGED <<envVars, rubric, response, uris, runBatch, batch_state, storers,
                   convVars>>

\* ------------------------------------------------------------------ run_batch

\* How often the status of a batch state record has been written since
\* batch_start created it: not at all, once, or again after that.
Written(writes) == IF writes = "none" THEN "once" ELSE "again"

NoTask == [pc |-> "none", cancel |-> FALSE, uris |-> <<>>, results |-> <<>>]

NoBatch ==
    [exists |-> FALSE, task |-> 0, results |-> [set |-> FALSE, value |-> <<>>],
     status |-> "none", image_count |-> 0, writes |-> "none"]

\* Variant of the sort: the records in the order gather returned them.
GatherOrder(results) == results

\* Where r goes in a list already sorted by score: after every record whose
\* score is not greater (sorted is stable).
RECURSIVE InsertByScore(_, _)
InsertByScore(sorted, r) ==
    IF sorted = <<>> THEN <<r>>
    ELSE IF sorted[1].score <= r.score
         THEN <<sorted[1]>> \o InsertByScore(Tail(sorted), r)
         ELSE <<r>> \o sorted

RECURSIVE SortFrom(_, _)
SortFrom(sorted, rest) ==
    IF rest = <<>> THEN sorted
    ELSE SortFrom(InsertByScore(sorted, rest[1]), Tail(rest))

\* sorted(results, key=lambda r: r["score"])
SortByScore(results) == SortFrom(<<>>, results)

\* The batches started so far.
Started == {b \in 1..MaxBatches : runBatch[b].pc # "none"}

\* A batch_start request: a prefix with run_all that lists n images, a list
\* of n image URIs, or neither.
Requests ==
    {[kind |-> "none", n |-> 0]}
        \cup {[kind |-> "prefix", n |-> n] : n \in batchSizes \cup {0}}
        \cup {[kind |-> "uris", n |-> n] : n \in batchSizes \ {0}}

\* Variant of batch_start: a request is never refused for a running batch.
StartResponseWithoutConflict(req) ==
    IF req.kind = "none" THEN 400
    ELSE IF req.n = 0 THEN 400
    ELSE 200

\* The status code batch_start answers request req with.
StartResponse(req) ==
    IF batch_state.exists /\ ~TaskDone(batch_state.task) THEN 409
    ELSE IF req.kind = "none" THEN 400
    ELSE IF req.n = 0 THEN 400
    ELSE 200

\* The error batch_start answers request req with.
StartError(req) ==
    IF batch_state.exists /\ ~TaskDone(batch_state.task) THEN "A batch is already running."
    ELSE IF req.kind = "none" THEN "No images specified."
    ELSE IF req.n = 0 THEN "No images found."
    ELSE "<None>"

\* No client records the answers of the server; no request was answered yet.
Unobserved == [status_code |-> -1, error |-> "<None>"]

NoResponse == [status_code |-> 0, error |-> "<None>"]

\* What a client that records the answers holds after this answer.
Answered(seen, status_code, error) ==
    IF seen = Unobserved THEN seen ELSE [status_code |-> status_code, error |-> error]

\* POST /api/batch/start, rejected: the handler returns the error response
\* before it creates anything.  A rejected request changes nothing, so it is
\* a step only where a client records the answers.
batch_start_rejected(req) ==
    /\ mode = "batch"
    /\ response # Unobserved
    /\ req \in Requests
    /\ StartResponse(req) # 200
    /\ response' = Answered(response, StartResponse(req), StartError(req))
    /\ UNCHANGED <<envVars, rubric, batchVars, convVars>>

\* POST /api/batch/start, accepted: the queue, the run_batch task, the state
\* record and the _store_results task are created.  (A rejected request
\* returns before any of them.)
batch_start(req) ==
    /\ mode = "batch"
    /\ Cardinality(Started) < maxBatches
    /\ req \in Requests
    /\ StartResponse(req) = 200
    /\ LET b == Cardinality(Started) + 1
       IN  /\ uris' = [i \in 1..req.n |-> UriAt(i)]
           /\ tasks' = <<>>
           /\ progress_queue' = NewQueue(req.n)
           /\ runBatch' = [runBatch EXCEPT ![b].pc = "created",
                                            ![b].uris = [i \in 1..req.n |-> UriAt(i)]]
           /\ batch_state' = [exists |-> TRUE, task |-> b,
                              results |-> [set |-> FALSE, value |-> <<>>],
                              status |-> "running", image_count |-> req.n,
                              writes |-> "none"]
           /\ storers' = storers \cup {b}
    /\ response' = Answered(response, 200, "<None>")
    /\ UNCHANGED <<envVars, rubric, sem, convVars>>

\* First step of run_batch: gather creates one process_image task per URI.
\* A _store_results that an earlier task's end has woken is ahead of it in
\* the loop's ready queue.
RunBatchStart(b) ==
    /\ mode = "batch"
    /\ b \in 1..MaxBatches
    /\ runBatch[b].pc = "created"
    /\ ~runBatch[b].cancel
    /\ storers \subseteq {b}
    /\ runBatch' = [runBatch EXCEPT ![b].pc = "gather"]
    /\ tasks' = [i \in 1..Len(runBatch[b].uris) |-> NewTask(runBatch[b].uris[i])]
    /\ UNCHANGED <<envVars, rubric, response, uris, sem, progress_queue, batch_state,
                   storers, convVars>>

\* Variant of gather: it returns as soon as one task has returned.
FirstReturned == \E p \in DOMAIN tasks : tasks[p].pc = "done"

\* gather returns when every task has returned its record.
GatherReturned == \A p \in DOMAIN tasks : tasks[p].pc = "done"

\* The records gather returns, in the order of the URIs.
RECURSIVE Gathered(_)
Gathered(ts) == IF ts = <<>> THEN <<>> ELSE ts[1].result \o Gathered(Tail(ts))

\* gather returned every task's record: sort, put complete, report, return;
\* or _generate_report raised (the report file cannot be written) and the
\* error leaves run_batch.
RunBatchFinish(b, report) ==
    /\ mode = "batch"
    /\ b \in 1..MaxBatches
    /\ runBatch[b].pc = "gather"
    /\ ~runBatch[b].cancel
    /\ GatherReturned
    /\ LET results == SortByScore(Gathered(tasks))
       IN  /\ progress_queue' =
                  PutFinal(progress_queue, [status |-> "complete", total |-> Len(results)])
           /\ runBatch' =
                  IF report = "written"
                  THEN [runBatch EXCEPT ![b].pc = "done", ![b].results = results]
                  ELSE [runBatch EXCEPT ![b].pc = "failed"]
    /\ UNCHANGED <<envVars, rubric, response, uris, tasks, sem, batch_state, storers,
                   convVars>>

\* CancelledError thrown into task t at the await it is suspended in.
Cancelled(t) ==
    IF InTry(t) THEN [t EXCEPT !.pc = "done", !.result = <<ExceptResult(t, "cancelled")>>]
    ELSE IF Ended(t) THEN t
    ELSE [t EXCEPT !.pc = "cancelled"]

\* The loop iteration after task.cancel(): gather has cancelled every task
\* that had not ended, each takes CancelledError at its await (inside the
\* try: event, partial record, permit released; outside: the error leaves
\* the task), and the error then reaches run_batch at its await of gather.
DeliverCancellation(b) ==
    /\ mode = "batch"
    /\ b \in 1..MaxBatches
    /\ runBatch[b].cancel
    /\ runBatch[b].pc \in {"created", "gather"}
    /\ runBatch' = [runBatch EXCEPT ![b].pc = "cancelled"]
    /\ IF runBatch[b].pc = "gather"
       THEN /\ tasks' = [p \in DOMAIN tasks |-> Cancelled(tasks[p])]
            /\ progress_queue' =
                   [progress_queue EXCEPT
                       !.events = [p \in DOMAIN tasks |->
                           IF InTry(tasks[p])
                           THEN Append(@[p], [sku |-> tasks[p].sku_id,
                                              status |-> "cancelled"])
                           ELSE @[p]]]
            /\ sem' = sem + Cardinality({p \in DOMAIN tasks : InTry(tasks[p])})
       ELSE UNCHANGED <<tasks, progress_queue, sem>>
    /\ UNCHANGED <<envVars, rubric, response, uris, batch_state, storers, convVars>>

\* _store_results of batch b resumes from `await task`; it writes to the
\* record the global _batch_state names at that moment.  The task's
\* arguments and result have no other reader.
StoreResults(b) ==
    /\ mode = "batch"
    /\ b \in storers
    /\ TaskDone(b)
    /\ storers' = storers \ {b}
    /\ runBatch' = [runBatch EXCEPT ![b].results = <<>>, ![b].uris = <<>>]
    /\ batch_state' =
           IF runBatch[b].pc = "done"
           THEN [batch_state EXCEPT !.results = [set |-> TRUE, value |-> runBatch[b].results],
                                    !.status = "complete", !.writes = Written(@)]
           ELSE IF runBatch[b].pc = "cancelled"
           THEN [batch_state EXCEPT !.status = "cancelled", !.writes = Written(@)]
           ELSE [batch_state EXCEPT !.status = "error", !.writes = Written(@)]
    /\ UNCHANGED <<envVars, rubric, response, uris, tasks, sem, progress_queue, convVars>>

\* Variant of batch_cancel: a batch whose task is done can still be cancelled.
CancelResponseIgnoresDone == IF ~batch_state.exists THEN 404 ELSE 200

\* The status code batch_cancel answers with.
CancelResponse == IF ~batch_state.exists \/ TaskDone(batch_state.task) THEN 404 ELSE 200

\* POST /api/batch/cancel, rejected: the handler returns the error response
\* and does nothing else.  It is a step only where a client records the
\* answers.
batch_cancel_rejected ==
    /\ mode = "batch"
    /\ response # Unobserved
    /\ CancelResponse = 404
    /\ response' = Answered(response, 404, "No batch running.")
    /\ UNCHANGED <<envVars, rubric, batchVars, convVars>>

\* POST /api/batch/cancel, accepted: task.cancel() and the status write.
batch_cancel ==
    /\ mode = "batch"
    /\ CancelResponse = 200
    /\ runBatch' = [runBatch EXCEPT ![batch_state.task].cancel = TRUE]
    /\ batch_state' = [batch_state EXCEPT !.status = "cancelled", !.writes = Written(@)]
    /\ response' = Answered(response, 200, "<None>")
    /\ UNCHANGED <<envVars, rubric, uris, tasks, sem, progress_queue, storers, convVars>>

BatchNext ==
    \/ \E req \in Requests : batch_start(req)
    \/ \E req \in Requests : batch_start_rejected(req)
    \/ batch_cancel
    \/ batch_cancel_rejected
    \/ \E b \in 1..MaxBatches : RunBatchStart(b)
    \/ \E b \in 1..MaxBatches : \E report \in {"written", "raised"} :
           RunBatchFinish(b, report)
    \/ \E b \in 1..MaxBatches : DeliverCancellation(b)
    \/ \E b \in 1..MaxBatches : StoreResults(b)
    \/ \E p \in DOMAIN tasks : TaskStart(p)
    \/ \E p \in DOMAIN tasks : SemAcquired(p)
    \/ \E p \in DOMAIN tasks : DescribeReturns(p)
    \/ \E p \in DOMAIN tasks : GenerateReturns(p)
    \/ \E p \in DOMAIN tasks : GenerateReturnsNoImage(p)
    \/ \E p \in DOMAIN tasks : \E answer \in AllAnswers : EvaluateReturns(p, answer)
    \/ \E p \in DOMAIN tasks : RefineReturns(p)
    \/ \E p \in DOMAIN tasks : ServiceRaises(p)

\* --------------------------------------------------- rubric generation loop

\* What one call of evals.generate_rubrics may do: return rubrics, return
\* data without rubric content, raise ClientError with a status code, or
\* raise another error.
RubricOutcomes ==
    {[kind |-> "rubrics", status_code |-> 0],
     [kind |-> "empty", status_code |-> 0],
     [kind |-> "ClientError", status_code |-> 429],
     [kind |-> "ClientError", status_code |-> 400],
     [kind |-> "ServerError", status_code |-> 503]}

\* range(1, RUBRIC_MAX_RETRIES + 1)
RubricAttempts == 1..RUBRIC_MAX_RETRIES

\* Variant of the except block: every client error is retried.
RetriesEveryClientError(status_code, rubric_attempt) ==
    rubric_attempt < RUBRIC_MAX_RETRIES

\* e.status_code == 429 and rubric_attempt < RUBRIC_MAX_RETRIES
RetriesRateLimit(status_code, rubric_attempt) ==
    status_code = 429 /\ rubric_attempt < RUBRIC_MAX_RETRIES

\* No evaluation is running its rubric loop.
NoRubricLoop ==
    [pc |-> "none", rubric_attempt |-> 0, calls |-> <<>>,
     data_with_rubrics |-> "None", raised |-> <<>>]

\* The evaluation is about to enter the for loop.
RubricLoopEntry ==
    [pc |-> "generate_rubrics", rubric_attempt |-> 1, calls |-> <<>>,
     data_with_rubrics |-> "None", raised |-> <<>>]

\* The for loop takes its next value, or is exhausted and evaluate is next.
NextRubricAttempt(r) ==
    IF r.rubric_attempt + 1 \in RubricAttempts
    THEN [r EXCEPT !.rubric_attempt = @ + 1]
    ELSE [r EXCEPT !.pc = "evaluate"]

\* One iteration of the loop: generate_rubrics is called and answers.
GenerateRubrics(outcome) ==
    /\ mode = "rubric"
    /\ rubric.pc = "generate_rubrics"
    /\ outcome \in RubricOutcomes
    /\ LET r == [rubric EXCEPT !.calls = Append(@, outcome)]
       IN  rubric' =
               IF outcome.kind = "rubrics"
               THEN [r EXCEPT !.data_with_rubrics = "rubrics", !.pc = "evaluate"]
               ELSE IF outcome.kind = "empty"
               THEN NextRubricAttempt([r EXCEPT !.data_with_rubrics = "empty"])
               ELSE IF outcome.kind = "ClientError"
               THEN IF RetriesRateLimit(outcome.status_code, r.rubric_attempt)
                    THEN NextRubricAttempt(r)
                    ELSE [r EXCEPT !.pc = "raised", !.raised = <<outcome>>]
               ELSE [r EXCEPT !.pc = "raised", !.raised = <<outcome>>]
    /\ UNCHANGED <<envVars, response, batchVars, convVars>>

\* After the loop: evals.evaluate is called with data_with_rubrics.
EvaluateRubrics ==
    /\ mode = "rubric"
    /\ rubric.pc = "evaluate"
    /\ rubric' = [rubric EXCEPT !.pc = "evaluated"]
    /\ UNCHANGED <<envVars, response, batchVars, convVars>>

RubricNext ==
    \/ \E outcome \in RubricOutcomes : GenerateRubrics(outcome)
    \/ EvaluateRubrics

\* The conversational session before the first user message.
IdleConv == [pc |-> "idle", iteration |-> 0, products |-> 0, calls |-> <<>>,
             eval_status |-> "none", report |-> <<>>]

InitBatchWith(sizes, batches, services, seen) ==
    /\ mode = "batch"
    /\ rubric = NoRubricLoop
    /\ response = seen
    /\ batchSizes = sizes
    /\ maxBatches = batches
    /\ stub = services
    /\ uris = <<>>
    /\ tasks = <<>>
    /\ sem = SemPermits
    /\ progress_queue = NewQueue(0)
    /\ runBatch = [b \in 1..MaxBatches |-> NoTask]
    /\ batch_state = NoBatch
    /\ storers = {}
    /\ state = <<>>
    /\ conv = IdleConv
    /\ escalate = FALSE
    /\ decisions = {}

InitBatch(sizes, batches, services) == InitBatchWith(sizes, batches, services, Unobserved)

ServiceCalls == {"describe", "generate", "evaluate", "refine"}

\* Every image may get every answer and every call may raise.
FullServices(n) == [i \in 1..n |-> [answers |-> FullStub, faults |-> ServiceCalls]]

\* More URIs than permits.  The second image may score low; the last one,
\* which waits for a permit, may fail to be described; the others pass at
\* the first attempt.
SemServices ==
    [i \in 1..SemUris |->
        IF i = 2 THEN [answers |-> SmallStub, faults |-> {}]
        ELSE IF i = SemUris THEN [answers |-> {AnswerHigh}, faults |-> {"describe"}]
        ELSE [answers |-> {AnswerHigh}, faults |-> {}]]

\* -------------------------------------------------- the conversational agent

\* state.get(key, default)
Get(s, key, default) == IF key \in DOMAIN s THEN s[key] ELSE default

\* state[key] = value
Set(s, key, value) == [k \in DOMAIN s \cup {key} |-> IF k = key THEN value ELSE s[k]]

\* The values save_product_results resets a key to that stand for None.
NoneVerdicts == [passing |-> NoneText, failing |-> NoneText]

\* initialize_evaluation(image_uris, sku_id, generation_type)
initialize_evaluation(s, image_uris, sku_id) ==
    LET s1 == Set(s, "image_uris", image_uris)
        s2 == Set(s1, "sku_id", sku_id)
        s3 == Set(s2, "generation_type", "image")
        s4 == Set(s3, "attempt", 1)
        s5 == Set(s4, "evaluation_history", <<>>)
    IN  Set(s5, "evaluation_passed", FALSE)

\* generate_description(image_uris), and the agent's output_key, which keeps
\* the text the agent outputs: the description, as it is told to.
generate_description(s, uri) ==
    LET description == Describe(uri)
        s1 == Set(s, "ground_truth_description", description)
        s2 == Set(s1, "current_description", description)
        s3 == Set(s2, "attempt", 1)
    IN  Set(s3, "ground_truth_description", description)

\* generate_product_image: the candidate is written and its URI kept.
generate_product_image(s) ==
    Set(s, "candidate_image_uri",
        CandidateUri(Get(s, "sku_id", "<None>"), Get(s, "attempt", 1)))

\* run_gecko_evaluation(prompt, image_uri) on a service answer: the state it
\* leaves.  An infrastructure error returns before any write.
run_gecko_evaluation(s, image_uri, answer) ==
    IF InfrastructureError(answer) THEN s
    ELSE LET result  == Scored(answer)
             s1      == Set(s, "gecko_score", result.score)
             s2      == Set(s1, "rubric_verdicts",
                            [passing |-> result.passing_verdicts,
                             failing |-> result.failing_verdicts])
             s3      == Set(s2, "failing_verdicts_text",
                            JoinVerdicts(result.failing_verdicts))
             history == Get(s3, "evaluation_history", <<>>)
         IN  Set(s3, "evaluation_history",
                 Append(history, HistoryEntry(Get(s3, "attempt", 1), result, image_uri)))

\* Variant of check_threshold: the retry budget is exhausted one attempt late.
check_threshold_late(s, flag) ==
    LET score   == Get(s, "gecko_score", 0)
        attempt == Get(s, "attempt", 1)
    IN  IF score = NoneScore
        THEN [raised |-> TRUE, action |-> "TypeError", score |-> score,
              attempt |-> attempt, state |-> s, escalate |-> flag]
        ELSE IF score >= PASSING_THRESHOLD
        THEN [raised |-> FALSE, action |-> "pass", score |-> score,
              attempt |-> attempt, state |-> Set(s, "evaluation_passed", TRUE),
              escalate |-> TRUE]
        ELSE IF attempt > MAX_RETRIES
        THEN [raised |-> FALSE, action |-> "fail", score |-> score,
              attempt |-> attempt, state |-> Set(s, "evaluation_passed", FALSE),
              escalate |-> TRUE]
        ELSE [raised |-> FALSE, action |-> "retry", score |-> score,
              attempt |-> attempt, state |-> s, escalate |-> flag]

\* Variant of check_threshold: a retry decision also forgets the score.
check_threshold_forgets(s, flag) ==
    LET score   == Get(s, "gecko_score", 0)
        attempt == Get(s, "attempt", 1)
    IN  IF score = NoneScore
        THEN [raised |-> TRUE, action |-> "TypeError", score |-> score,
              attempt |-> attempt, state |-> s, escalate |-> flag]
        ELSE IF score >= PASSING_THRESHOLD
        THEN [raised |-> FALSE, action |-> "pass", score |-> score,
              attempt |-> attempt, state |-> Set(s, "evaluation_passed", TRUE),
              escalate |-> TRUE]
        ELSE IF attempt >= MAX_RETRIES
        THEN [raised |-> FALSE, action |-> "fail", score |-> score,
              attempt |-> attempt, state |-> Set(s, "evaluation_passed", FALSE),
              escalate |-> TRUE]
        ELSE [raised |-> FALSE, action |-> "retry", score |-> score,
              attempt |-> attempt, state |-> Set(s, "gecko_score", NoneScore),
              escalate |-> flag]

\* Variant of check_threshold: a score equal to the threshold does not pass.
check_threshold_strict(s, flag) ==
    LET score   == Get(s, "gecko_score", 0)
        attempt == Get(s, "attempt", 1)
    IN  IF score = NoneScore
        THEN [raised |-> TRUE, action |-> "TypeError", score |-> score,
              attempt |-> attempt, state |-> s, escalate |-> flag]
        ELSE IF score > PASSING_THRESHOLD
        THEN [raised |-> FALSE, action |-> "pass", score |-> score,
              attempt |-> attempt, state |-> Set(s, "evaluation_passed", TRUE),
              escalate |-> TRUE]
        ELSE IF attempt >= MAX_RETRIES
        THEN [raised |-> FALSE, action |-> "fail", score |-> score,
              attempt |-> attempt, state |-> Set(s, "evaluation_passed", FALSE),
              escalate |-> TRUE]
        ELSE [raised |-> FALSE, action |-> "retry", score |-> score,
              attempt |-> attempt, state |-> s, escalate |-> flag]

\* check_threshold: what it returns and the state and escalate flag it
\* leaves.  A score of None cannot be compared (TypeError), and verdicts of
\* None have no get (AttributeError).
check_threshold(s, flag) ==
    LET score   == Get(s, "gecko_score", 0)
        attempt == Get(s, "attempt", 1)
    IN  IF score = NoneScore
        THEN [raised |-> TRUE, action |-> "TypeError", score |-> score,
              attempt |-> attempt, state |-> s, escalate |-> flag]
        ELSE IF score >= PASSING_THRESHOLD
        THEN [raised |-> FALSE, action |-> "pass", score |-> score,
              attempt |-> attempt, state |-> Set(s, "evaluation_passed", TRUE),
              escalate |-> TRUE]
        ELSE IF attempt >= MAX_RETRIES
        THEN [raised |-> FALSE, action |-> "fail", score |-> score,
              attempt |-> attempt, state |-> Set(s, "evaluation_passed", FALSE),
              escalate |-> TRUE]
        ELSE IF Get(s, "rubric_verdicts", <<>>) = NoneVerdicts
        THEN [raised |-> TRUE, action |-> "AttributeError", score |-> score,
              attempt |-> attempt, state |-> s, escalate |-> flag]
        ELSE [raised |-> FALSE, action |-> "retry", score |-> score,
              attempt |-> attempt, state |-> s, escalate |-> flag]

\* refine_description(original_description, failing_verdicts)
refine_description(s, original_description, failing_verdicts) ==
    LET s1 == Set(s, "current_description", Refine(original_description, failing_verdicts))
    IN  Set(s1, "attempt", Get(s1, "attempt", 1) + 1)

\* Variant of save_product_results: the record is appended, nothing is reset.
save_product_results_without_reset(s) ==
    LET record == [sku_id |-> Get(s, "sku_id", "<None>"),
                   image_uris |-> Get(s, "image_uris", NoneText),
                   ground_truth_description |-> Get(s, "ground_truth_description", NoneText),
                   evaluation_history |-> Get(s, "evaluation_history", <<>>),
                   evaluation_passed |-> Get(s, "evaluation_passed", FALSE)]
    IN  Set(s, "all_products", Append(Get(s, "all_products", <<>>), record))

\* save_product_results: the record appended to all_products, then the reset.
save_product_results(s) ==
    LET record == [sku_id |-> Get(s, "sku_id", "<None>"),
                   image_uris |-> Get(s, "image_uris", NoneText),
                   ground_truth_description |-> Get(s, "ground_truth_description", NoneText),
                   evaluation_history |-> Get(s, "evaluation_history", <<>>),
                   evaluation_passed |-> Get(s, "evaluation_passed", FALSE)]
        s0  == Set(s, "all_products", Append(Get(s, "all_products", <<>>), record))
        s1  == Set(s0, "sku_id", "<None>")
        s2  == Set(s1, "image_uris", NoneText)
        s3  == Set(s2, "ground_truth_description", NoneText)
        s4  == Set(s3, "current_description", NoneText)
        s5  == Set(s4, "evaluation_history", <<>>)
        s6  == Set(s5, "evaluation_passed", FALSE)
        s7  == Set(s6, "attempt", 1)
        s8  == Set(s7, "gecko_score", NoneScore)
        s9  == Set(s8, "rubric_verdicts", NoneVerdicts)
        s10 == Set(s9, "failing_verdicts_text", NoneText)
        s11 == Set(s10, "candidate_image_uri", NoneText)
    IN  Set(s11, "_reference_images_shown", FALSE)

\* LoopAgent(max_iterations=MAX_RETRIES)
max_iterations == MAX_RETRIES

\* A tool raised, or an instruction names a state key that is missing: the
\* invocation ends there; the session state stays as the tools left it.
Abort == conv' = [conv EXCEPT !.pc = "idle"]

\* The root agent parses the user's message, calls initialize_evaluation and
\* transfers to ProductPipeline.
InitializeEvaluation ==
    /\ mode = "conv"
    /\ conv.pc = "idle"
    /\ conv.products < Len(stub)
    /\ LET uri == UriAt(conv.products + 1)
       IN  state' = initialize_evaluation(state, UriText(uri), Stem(uri))
    /\ conv' = [conv EXCEPT !.pc = "describe", !.products = @ + 1, !.iteration = 0,
                            !.calls = <<>>, !.eval_status = "none", !.report = <<>>]
    /\ escalate' = FALSE
    /\ decisions' = {}
    /\ UNCHANGED <<envVars, rubric, response, batchVars>>

\* DescriptionAgent: generate_description; then RefinementLoop starts.
GenerateDescription ==
    /\ mode = "conv"
    /\ conv.pc = "describe"
    /\ state' = generate_description(state, UriAt(conv.products))
    /\ conv' = [conv EXCEPT !.pc = "generate", !.iteration = 1,
                            !.calls = Append(@, Call("describe", 0, state["image_uris"], <<>>))]
    /\ escalate' = FALSE
    /\ decisions' = {}
    /\ UNCHANGED <<envVars, rubric, response, batchVars>>

\* ImageGenAgent: generate_product_image.
GenerateImage ==
    /\ mode = "conv"
    /\ conv.pc = "generate"
    /\ state' = generate_product_image(state)
    /\ conv' = [conv EXCEPT !.pc = "evaluate",
                            !.calls = Append(@, Call("generate", Get(state, "attempt", 1),
                                                     Get(state, "current_description", NoneText),
                                                     <<>>))]
    /\ escalate' = FALSE
    /\ decisions' = {}
    /\ UNCHANGED <<envVars, rubric, response, batchVars>>

\* EvaluationAgent, step 1: run_gecko_evaluation with the prompt and image
\* URI its instruction takes from the state.
RunGeckoEvaluation(answer) ==
    /\ mode = "conv"
    /\ conv.pc = "evaluate"
    /\ answer \in stub[conv.products].answers
    /\ LET prompt    == state["ground_truth_description"]
           image_uri == state["candidate_image_uri"]
       IN  /\ state' = run_gecko_evaluation(state, image_uri, answer)
           /\ conv' = [conv EXCEPT !.pc = "check",
                                   !.eval_status =
                                       IF InfrastructureError(answer) THEN "error"
                                       ELSE "success",
                                   !.calls = Append(@, Call("evaluate", Get(state, "attempt", 1),
                                                            prompt, image_uri))]
    /\ escalate' = FALSE
    /\ decisions' = {}
    /\ UNCHANGED <<envVars, rubric, response, batchVars>>

\* EvaluationAgent, step 2: check_threshold.  On escalate the LoopAgent
\* stops and EvaluationPipeline ends; otherwise RefinementAgent is next.
CheckThreshold ==
    /\ mode = "conv"
    /\ conv.pc = "check"
    /\ LET r == check_threshold(state, escalate)
       IN  IF r.raised
           THEN /\ Abort
                /\ decisions' = {}
                /\ UNCHANGED <<state, escalate>>
           ELSE /\ state' = r.state
                /\ escalate' = r.escalate
                /\ decisions' =
                       {[score |-> r.score, attempt |-> r.attempt, action |-> r.action]}
                /\ conv' = [conv EXCEPT !.pc = IF r.escalate THEN "save" ELSE "refine"]
    /\ UNCHANGED <<envVars, rubric, response, batchVars>>

\* EvaluationAgent after an evaluation that returned status error: whether
\* the model goes on to step 2 is its choice; here it stops, no decision is
\* taken and the loop goes on to RefinementAgent.
SkipThreshold ==
    /\ mode = "conv"
    /\ conv.pc = "check"
    /\ conv.eval_status = "error"
    /\ conv' = [conv EXCEPT !.pc = "refine"]
    /\ escalate' = FALSE
    /\ decisions' = {}
    /\ UNCHANGED <<envVars, rubric, response, batchVars, state>>

\* RefinementAgent: refine_description with the arguments its instruction
\* takes from the state; the loop ends after max_iterations iterations.
RefineDescription ==
    /\ mode = "conv"
    /\ conv.pc = "refine"
    /\ IF "failing_verdicts_text" \notin DOMAIN state
       THEN /\ Abort
            /\ UNCHANGED state
       ELSE LET original_description == state["ground_truth_description"]
                failing_verdicts     == state["failing_verdicts_text"]
            IN  /\ state' = refine_description(state, original_description, failing_verdicts)
                /\ conv' = [conv EXCEPT
                       !.pc = IF conv.iteration < max_iterations THEN "generate" ELSE "save",
                       !.iteration = IF conv.iteration < max_iterations THEN @ + 1 ELSE @,
                       !.calls = Append(@, Call("refine", Get(state, "attempt", 1),
                                                original_description, failing_verdicts))]
    /\ escalate' = FALSE
    /\ decisions' = {}
    /\ UNCHANGED <<envVars, rubric, response, batchVars>>

\* EvaluationPipeline's after_agent_callback.
SaveProductResults ==
    /\ mode = "conv"
    /\ conv.pc = "save"
    /\ state' = save_product_results(state)
    /\ conv' = [conv EXCEPT !.pc = "report"]
    /\ escalate' = FALSE
    /\ decisions' = {}
    /\ UNCHANGED <<envVars, rubric, response, batchVars>>

\* ReportAgent: create_html_report, then the summary its instruction fills
\* in from the state.
Report ==
    /\ mode = "conv"
    /\ conv.pc = "report"
    /\ conv' = [conv EXCEPT !.pc = "idle",
                            !.report = <<[sku_id |-> state["sku_id"],
                                          evaluation_passed |-> state["evaluation_passed"],
                                          gecko_score |-> state["gecko_score"]]>>]
    /\ escalate' = FALSE
    /\ decisions' = {}
    /\ UNCHANGED <<envVars, rubric, response, batchVars, state>>

\* The service call a tool makes raised.
ToolRaises ==
    /\ mode = "conv"
    /\ conv.pc \in ServiceCalls
    /\ conv.pc \in stub[conv.products].faults
    /\ Abort
    /\ escalate' = FALSE
    /\ decisions' = {}
    /\ UNCHANGED <<envVars, rubric, response, batchVars, state>>

ConvNext ==
    \/ InitializeEvaluation
    \/ GenerateDescription
    \/ GenerateImage
    \/ \E answer \in AllAnswers : RunGeckoEvaluation(answer)
    \/ CheckThreshold
    \/ SkipThreshold
    \/ RefineDescription
    \/ SaveProductResults
    \/ Report
    \/ ToolRaises

\* ------------------------------------------------------------ specifications

InitConvWith(services) ==
    /\ mode = "conv"
    /\ rubric = NoRubricLoop
    /\ response = Unobserved
    /\ stub = services
    /\ batchSizes = {}
    /\ maxBatches = 0
    /\ uris = <<>>
    /\ tasks = <<>>
    /\ sem = SemPermits
    /\ progress_queue = NewQueue(0)
    /\ runBatch = [b \in 1..MaxBatches |-> NoTask]
    /\ batch_state = NoBatch
    /\ storers = {}
    /\ state = <<>>
    /\ conv = IdleConv
    /\ escalate = FALSE
    /\ decisions = {}

\* One batch of up to MaxUris images, every service answer and failure
\* possible.
InitPipeline == InitBatch(1..MaxUris, 1, FullServices(MaxUris))

\* One batch of SemPermits + 1 images.
InitSem == InitBatch({SemUris}, 1, SemServices)

\* One session of up to MaxProducts products.
InitConv == InitConvWith(FullServices(MaxProducts))

\* One image or product whose evaluation may get every kind of answer, in a
\* batch and in a session; the image model may answer without an image.
ScorerServices == <<[answers |-> ScorerStub, faults |-> {"no_image"}]>>

InitScorer == InitBatch({1}, 1, ScorerServices) \/ InitConvWith(ScorerServices)

\* MaxBatches batches in turn, of one image.
InitServer ==
    InitBatch({1}, MaxBatches, <<[answers |-> SmallStub, faults |-> {"generate"}]>>)

\* Two batches of one image that passes at once, started by a client that
\* records what batch_start answers and also sends requests without images,
\* with a prefix that lists no image, and while a batch runs.
InitRequests ==
    InitBatchWith({1}, 2, <<[answers |-> {AnswerHigh}, faults |-> {}]>>, NoResponse)

\* One evaluation at the start of its rubric generation loop.
InitRubric ==
    /\ mode = "rubric"
    /\ rubric = RubricLoopEntry
    /\ response = Unobserved
    /\ stub = <<>>
    /\ batchSizes = {}
    /\ maxBatches = 0
    /\ uris = <<>>
    /\ tasks = <<>>
    /\ sem = SemPermits
    /\ progress_queue = NewQueue(0)
    /\ runBatch = [b \in 1..MaxBatches |-> NoTask]
    /\ batch_state = NoBatch
    /\ storers = {}
    /\ state = <<>>
    /\ conv = IdleConv
    /\ escalate = FALSE
    /\ decisions = {}

\* A batch server in one of its settings, one conversational session, or
\* one evaluation's rubric generation.
Init ==
    \/ InitPipeline
    \/ InitSem
    \/ InitServer
    \/ InitRequests
    \/ InitConv
    \/ InitScorer
    \/ InitRubric

Next == BatchNext \/ ConvNext \/ RubricNext

Spec == Init /\ [][Next]_vars

\* The steps the event loop takes by itself: coroutines that are ready run,
\* and a service call that was issued returns or raises.  Requests to the
\* server and messages of the user are not among them.
LoopStep ==
    \/ \E b \in 1..MaxBatches : RunBatchStart(b)
    \/ \E b \in 1..MaxBatches : \E report \in {"written", "raised"} :
           RunBatchFinish(b, report)
    \/ \E b \in 1..MaxBatches : DeliverCancellation(b)
    \/ \E b \in 1..MaxBatches : StoreResults(b)
    \/ \E p \in DOMAIN tasks : TaskStart(p)
    \/ \E p \in DOMAIN tasks : SemAcquired(p)
    \/ \E p \in DOMAIN tasks : DescribeReturns(p)
    \/ \E p \in DOMAIN tasks : GenerateReturns(p)
    \/ \E p \in DOMAIN tasks : GenerateReturnsNoImage(p)
    \/ \E p \in DOMAIN tasks : \E answer \in AllAnswers : EvaluateReturns(p, answer)
    \/ \E p \in DOMAIN tasks : RefineReturns(p)
    \/ \E p \in DOMAIN tasks : ServiceRaises(p)

\* The event loop runs every ready coroutine.
SpecLive == Init /\ [][Next]_vars /\ WF_vars(LoopStep)


\* ---------------------------------------------------------------- properties

\* The records of the process_image tasks that have returned.
Returned == {p \in DOMAIN tasks : tasks[p].pc = "done"}

ResultOf(p) == tasks[p].result[1]

\* How many times the calls show the loop body was entered.
BodyRuns(calls) == Cardinality({i \in DOMAIN calls : calls[i].op = "generate"})

CallsOf(calls, op) == {i \in DOMAIN calls : calls[i].op = op}

\* The attempts of a history whose score reaches the threshold.
PassingAttempts(history) ==
    {i \in DOMAIN history : history[i].score >= PASSING_THRESHOLD}

Least(S) == CHOOSE i \in S : \A j \in S : i <= j

\* The session's history and saved records.
SessionHistory == Get(state, "evaluation_history", <<>>)

AllProducts == Get(state, "all_products", <<>>)

\* C1: in the batch loop and in the conversational loop, the attempt history
\* never holds more than MAX_RETRIES entries (in a running task, a returned
\* record, the session state or a saved product record), and the
\* generate/evaluate loop body runs at most MAX_RETRIES times per product.
C1_HistoryAndBodyBounded ==
    /\ \A p \in DOMAIN tasks :
           /\ Len(tasks[p].evaluation_history) <= MAX_RETRIES
           /\ BodyRuns(tasks[p].calls) <= MAX_RETRIES
           /\ Cardinality(CallsOf(tasks[p].calls, "evaluate")) <= MAX_RETRIES
    /\ \A p \in Returned : Len(ResultOf(p).evaluation_history) <= MAX_RETRIES
    /\ Len(SessionHistory) <= MAX_RETRIES
    /\ BodyRuns(conv.calls) <= MAX_RETRIES
    /\ Cardinality(CallsOf(conv.calls, "evaluate")) <= MAX_RETRIES
    /\ conv.iteration <= MAX_RETRIES
    /\ \A i \in DOMAIN AllProducts :
           Len(AllProducts[i].evaluation_history) <= MAX_RETRIES

\* A conversational product whose loop ran MAX_RETRIES times and whose
\* history is full.
C1_Witness ==
    /\ mode = "conv"
    /\ conv.pc = "save"
    /\ BodyRuns(conv.calls) = MAX_RETRIES
    /\ Len(SessionHistory) = MAX_RETRIES

\* C2: a process_image run in which no call failed and which was not
\* cancelled ends passed with exactly i history entries, i generations and i
\* evaluations, where i is the first attempt whose score is >=
\* PASSING_THRESHOLD; if no attempt's score is, it ends not passed with
\* exactly MAX_RETRIES entries.
C2_OutcomeOfScores ==
    \A p \in Returned :
        LET r       == ResultOf(p)
            history == r.evaluation_history
            passing == PassingAttempts(history)
        IN  ~HasError(r) =>
                IF passing # {}
                THEN /\ r.passed
                     /\ Len(history) = Least(passing)
                     /\ r.attempts = Least(passing)
                     /\ BodyRuns(tasks[p].calls) = Least(passing)
                     /\ Cardinality(CallsOf(tasks[p].calls, "evaluate")) = Least(passing)
                ELSE /\ ~r.passed
                     /\ Len(history) = MAX_RETRIES

\* Two low scores then a passing one: passed at attempt 3, history length 3.
C2_Witness ==
    \E p \in Returned :
        /\ ResultOf(p).passed
        /\ ~HasError(ResultOf(p))
        /\ Len(ResultOf(p).evaluation_history) = 3
        /\ ResultOf(p).evaluation_history[1].score = 2
        /\ ResultOf(p).evaluation_history[2].score = 5
        /\ ResultOf(p).evaluation_history[3].score = 9

\* C3: whenever a product run ends as passed (its record, and its passed
\* event), the last history entry's score is >= PASSING_THRESHOLD and every
\* earlier entry's score is below it.
C3_PassedAtFirstPassingAttempt ==
    \A p \in DOMAIN tasks :
        LET history == tasks[p].evaluation_history
            events  == progress_queue.events[p]
        IN  (\/ p \in Returned /\ ResultOf(p).passed
             \/ \E i \in DOMAIN events : events[i].status = "passed")
            => /\ history # <<>>
               /\ history[Len(history)].score >= PASSING_THRESHOLD
               /\ \A i \in 1..(Len(history) - 1) : history[i].score < PASSING_THRESHOLD
               /\ p \in Returned
               /\ ResultOf(p).evaluation_history = history

\* A run that passed at its second attempt with a score exactly at the
\* threshold, after a low first score.
C3_Witness ==
    \E p \in Returned :
        /\ ResultOf(p).passed
        /\ Len(ResultOf(p).evaluation_history) = 2
        /\ ResultOf(p).evaluation_history[2].score = PASSING_THRESHOLD

\* C4: whenever a product run ends as failed (a failed event, or a record
\* with passed = False and no error marker), its history has exactly
\* MAX_RETRIES entries and the last entry's score is below PASSING_THRESHOLD.
C4_FailedAfterAllRetries ==
    \A p \in DOMAIN tasks :
        LET events == progress_queue.events[p]
        IN  (\/ p \in Returned /\ ~ResultOf(p).passed /\ ~HasError(ResultOf(p))
             \/ \E i \in DOMAIN events : events[i].status = "failed")
            => /\ p \in Returned
               /\ Len(ResultOf(p).evaluation_history) = MAX_RETRIES
               /\ ResultOf(p).evaluation_history[MAX_RETRIES].score < PASSING_THRESHOLD
               /\ ~ResultOf(p).passed

\* A run that has put its failed event.
C4_Witness ==
    \E p \in Returned :
        /\ ~ResultOf(p).passed
        /\ ~HasError(ResultOf(p))
        /\ \E i \in DOMAIN progress_queue.events[p] :
               progress_queue.events[p][i].status = "failed"

\* The decision the threshold rule gives for a score and an attempt number.
Decide(score, attempt) ==
    IF score >= PASSING_THRESHOLD THEN "pass"
    ELSE IF attempt >= MAX_RETRIES THEN "fail"
    ELSE "retry"

\* C5: check_threshold returns pass iff score >= PASSING_THRESHOLD, fail iff
\* score < PASSING_THRESHOLD and attempt >= MAX_RETRIES, and retry otherwise,
\* where score and attempt are the session's gecko_score and attempt when it
\* is called: the action depends on nothing else.
C5_DecisionIsFunctionOfScoreAndAttempt ==
    \A d \in decisions :
        /\ d.action = Decide(d.score, d.attempt)
        /\ d.score = Get(state, "gecko_score", 0)
        /\ d.attempt = Get(state, "attempt", 1)
        /\ d.action = "pass" <=> d.score >= PASSING_THRESHOLD
        /\ d.action = "fail" <=> (d.score < PASSING_THRESHOLD /\ d.attempt >= MAX_RETRIES)
        /\ d.action = "retry" <=> (d.score < PASSING_THRESHOLD /\ d.attempt < MAX_RETRIES)

\* check_threshold has just returned fail at the last attempt.
C5_Witness ==
    \E d \in decisions :
        /\ d.action = "fail"
        /\ d.attempt = MAX_RETRIES
        /\ Len(SessionHistory) = MAX_RETRIES

C7_RefinerGetsOriginal ==
    /\ \A p \in DOMAIN tasks :
           /\ \A i \in CallsOf(tasks[p].calls, "refine") :
                  tasks[p].calls[i].text = Describe(tasks[p].uri)
           /\ tasks[p].pc \in {"generate", "evaluate", "refine", "done"}
                  /\ tasks[p].attempt >= 1
                  => tasks[p].original_description = Describe(tasks[p].uri)
    /\ \A i \in CallsOf(conv.calls, "refine") :
           conv.calls[i].text = Describe(UriAt(conv.products))
    /\ conv.pc \in {"generate", "evaluate", "check", "refine"}
           => state["ground_truth_description"] = Describe(UriAt(conv.products))

\* A batch run that has called the refiner twice, the second time after
\* an attempt made from a refined description.
C7_Witness ==
    \E p \in DOMAIN tasks :
        /\ Cardinality(CallsOf(tasks[p].calls, "refine")) = 2
        /\ tasks[p].description # tasks[p].original_description

\* C8, as stated: in every attempt k > 1 of a product run, the description
\* in use is the refiner's output for the original description and the
\* failing verdicts of history entry k-1, which is the entry of attempt k-1.
C8_DescriptionFromPreviousVerdicts ==
    /\ \A p \in DOMAIN tasks :
           LET t == tasks[p]
               k == t.attempt
           IN  (t.pc \in {"generate", "evaluate"} /\ k > 1)
               => /\ Len(t.evaluation_history) >= k - 1
                  /\ t.evaluation_history[k - 1].attempt = k - 1
                  /\ t.description =
                         Refine(t.original_description,
                                JoinVerdicts(t.evaluation_history[k - 1].failing_verdicts))
    /\ LET k == Get(state, "attempt", 1)
       IN  (conv.pc \in {"generate", "evaluate"} /\ k > 1)
           => /\ Len(SessionHistory) >= k - 1
              /\ SessionHistory[k - 1].attempt = k - 1
              /\ state["current_description"] =
                     Refine(state["ground_truth_description"],
                            JoinVerdicts(SessionHistory[k - 1].failing_verdicts))

\* C8 in the batch loop alone, where it holds.
C8_BatchDescriptionFromPreviousVerdicts ==
    \A p \in DOMAIN tasks :
        LET t == tasks[p]
            k == t.attempt
        IN  (t.pc \in {"generate", "evaluate"} /\ k > 1)
            => /\ Len(t.evaluation_history) >= k - 1
               /\ t.evaluation_history[k - 1].attempt = k - 1
               /\ t.description =
                      Refine(t.original_description,
                             JoinVerdicts(t.evaluation_history[k - 1].failing_verdicts))

\* A record is sorted by score, lowest first.
SortedByScore(results) ==
    \A i \in 1..(Len(results) - 1) : results[i].score <= results[i + 1].score

\* C9: the list run_batch returns holds exactly one record per input URI
\* and is sorted non-decreasing by score, in whatever order the products
\* finished.
C9_OneRecordPerUriSorted ==
    \A b \in 1..MaxBatches :
        (runBatch[b].pc = "done" /\ b \in storers)
        => LET results == runBatch[b].results
           IN  /\ Len(results) = Len(runBatch[b].uris)
               /\ \A i \in DOMAIN runBatch[b].uris :
                      Cardinality({j \in DOMAIN results :
                                      results[j].reference_uri = runBatch[b].uris[i]}) = 1
               /\ SortedByScore(results)

\* A batch whose returned list starts with the last image's record (score
\* 0), then the second image's (0.5), then passing ones (0.9).
C9_Witness ==
    \E b \in 1..MaxBatches :
        /\ runBatch[b].pc = "done"
        /\ Len(runBatch[b].results) = SemUris
        /\ runBatch[b].results[1].reference_uri = UriAt(SemUris)
        /\ runBatch[b].results[1].score = 0
        /\ runBatch[b].results[2].reference_uri = UriAt(2)
        /\ runBatch[b].results[2].score = 5
        /\ runBatch[b].results[3].score = 9

\* The product pipelines that are between acquiring and releasing a permit:
\* those with a description, generation, evaluation or refinement call out.
Active == {p \in DOMAIN tasks : InsideSem(tasks[p])}

\* C10: across batch starts, completions and cancellations, at most 5
\* product pipelines are issuing service calls at the same time.
C10_AtMostFiveActive ==
    /\ Cardinality(Active) <= 5
    /\ sem = SemPermits - Cardinality(Active)

\* Five pipelines are active and a sixth waits for a permit.
C10_Witness ==
    /\ Cardinality(Active) = 5
    /\ \E p \in DOMAIN tasks : tasks[p].pc = "wait_sem"

\* C11: a service call of one product that raises ends that product alone:
\* in the step in which a task leaves its try block on an error (or on any
\* other outcome, absent a cancellation), the task returns a record, every
\* other task and its events are untouched and run_batch goes on; and
\* run_batch ends only when every task has returned, with every task's
\* record in the list it returns.
C11_SiblingsUnaffected ==
    [][/\ \A q \in DOMAIN tasks :
              (/\ q \in DOMAIN tasks'
               /\ NoCancelPending
               /\ InTry(tasks[q])
               /\ ~InTry(tasks'[q]))
              => /\ tasks'[q].pc = "done"
                 /\ tasks'[q].result # <<>>
                 /\ \A p \in DOMAIN tasks \ {q} :
                        /\ tasks'[p] = tasks[p]
                        /\ progress_queue'.events[p] = progress_queue.events[p]
                 /\ runBatch' = runBatch
       /\ \A b \in 1..MaxBatches :
              (runBatch[b].pc = "gather" /\ runBatch'[b].pc \in {"done", "failed"})
              => /\ \A p \in DOMAIN tasks : tasks[p].pc = "done"
                 /\ runBatch'[b].pc = "done"
                        => /\ Len(runBatch'[b].results) = Len(runBatch[b].uris)
                           /\ \A p \in DOMAIN tasks :
                                  \E i \in DOMAIN runBatch'[b].results :
                                      runBatch'[b].results[i] = tasks[p].result[1]]_vars

\* A batch of several images has returned its list: one product ended in
\* error, another failed after a full history and others passed.
C11_Witness ==
    \E b \in 1..MaxBatches :
        /\ runBatch[b].pc = "done"
        /\ Len(runBatch[b].results) = SemUris
        /\ \E i, j, k \in DOMAIN runBatch[b].results :
               /\ HasError(runBatch[b].results[i])
               /\ runBatch[b].results[i].error = "service error"
               /\ ~HasError(runBatch[b].results[j])
               /\ ~runBatch[b].results[j].passed
               /\ Len(runBatch[b].results[j].evaluation_history) = MAX_RETRIES
               /\ runBatch[b].results[k].passed

\* The last event task p put, if any, has this status.
LastEventIs(p, status) ==
    /\ progress_queue.events[p] # <<>>
    /\ progress_queue.events[p][Len(progress_queue.events[p])].status = status

\* C12: every task a cancellation ended, wherever it was waiting, has put a
\* `cancelled` event as its last event and has returned a partial record.
C12_CancelledTaskReports ==
    \A p \in DOMAIN tasks :
        (\/ tasks[p].pc = "cancelled"
         \/ /\ tasks[p].pc = "done"
            /\ HasError(tasks[p].result[1])
            /\ tasks[p].result[1].error = "cancelled")
        => /\ p \in DOMAIN progress_queue.events
           /\ LastEventIs(p, "cancelled")
           /\ tasks[p].result # <<>>

\* The batch the state record names was cancelled after some product had
\* started, and its _store_results has run.
CancelledAndStored(b) ==
    /\ batch_state.exists
    /\ batch_state.task = b
    /\ runBatch[b].pc = "cancelled"
    /\ b \notin storers
    /\ \E p \in DOMAIN progress_queue.events : progress_queue.events[p] # <<>>

\* C13: once the task of a cancelled batch has ended and _store_results has
\* run, the results of the batch state hold the record of every product that
\* returned one.
C13_CancelledBatchKeepsPartialResults ==
    \A b \in 1..MaxBatches :
        CancelledAndStored(b)
        => /\ batch_state.results.set
           /\ \A p \in DOMAIN tasks :
                  tasks[p].result # <<>>
                  => \E i \in DOMAIN batch_state.results.value :
                         batch_state.results.value[i] = tasks[p].result[1]

\* Status values of the terminal events a product task puts.
TerminalStatuses == {"passed", "failed", "error", "cancelled"}

\* C14: a complete event is the only one of its batch and the last event of
\* the queue: its total is the number of URIs of the batch, every product
\* has put its terminal event before it and no event follows it.
C14_CompleteIsLastAndOnce ==
    progress_queue.final # <<>>
    => /\ Len(progress_queue.final) = 1
       /\ progress_queue.late = 0
       /\ batch_state.exists
       /\ progress_queue.final[1].total = batch_state.image_count
       /\ DOMAIN progress_queue.events = 1..batch_state.image_count
       /\ \A p \in DOMAIN progress_queue.events :
              \E status \in TerminalStatuses : LastEventIs(p, status)

\* A batch of more images than permits has put complete after products that
\* passed, failed and ended in error.
C14_Witness ==
    /\ progress_queue.final # <<>>
    /\ Len(progress_queue.events) = SemUris
    /\ \E p, q, r \in DOMAIN progress_queue.events :
           /\ LastEventIs(p, "passed")
           /\ LastEventIs(q, "failed")
           /\ LastEventIs(r, "error")

\* C15: every batch that was started eventually puts the complete event on
\* its progress queue.
C15_EventuallyComplete ==
    batch_state.exists ~> (progress_queue.final # <<>>)

\* A batch that is never cancelled does put the complete event.
C15_CompleteUnlessCancelled ==
    batch_state.exists
        ~> \/ progress_queue.final # <<>>
           \/ batch_state.exists /\ runBatch[batch_state.task].cancel

\* The events of task p are a running event followed by at most one
\* terminal event.
RunningThenTerminal(p) ==
    LET ev == progress_queue.events[p]
    IN  /\ Len(ev) <= 2
        /\ Len(ev) >= 1 => ev[1].status = "running"
        /\ Len(ev) = 2 => ev[2].status \in TerminalStatuses

\* The terminal event of task p agrees with the record it returned.
TerminalMatchesRecord(p) ==
    LET ev == progress_queue.events[p]
    IN  /\ Len(ev) = 2
        /\ tasks[p].result # <<>>
        /\ ResultOf(p).passed => ev[2].status = "passed"
        /\ HasError(ResultOf(p)) => ev[2].status \in {"error", "cancelled"}

\* C16: every product task puts one running event, then exactly one
\* terminal event, and nothing after it; the terminal event of a task that
\* has ended agrees with the record it returned.
C16_RunningThenOneTerminal ==
    \A p \in DOMAIN tasks :
        /\ RunningThenTerminal(p)
        /\ Ended(tasks[p]) => TerminalMatchesRecord(p)

\* The same for the tasks that returned a record.
C16_ReturnedTaskEvents ==
    \A p \in DOMAIN tasks :
        /\ RunningThenTerminal(p)
        /\ p \in Returned => TerminalMatchesRecord(p)

\* C17: the status of a batch state record starts as running and is written
\* once, to complete, cancelled or error; after it has left running no step
\* writes the status of that record again.
C17_StatusWrittenOnce ==
    [][/\ (batch_state'.exists /\ batch_state'.task # batch_state.task)
              => /\ batch_state'.status = "running"
                 /\ batch_state'.writes = "none"
       /\ (/\ batch_state.exists
           /\ batch_state'.task = batch_state.task
           /\ batch_state.status # "running")
              => /\ batch_state'.status = batch_state.status
                 /\ batch_state'.writes = batch_state.writes
       /\ (/\ batch_state.exists
           /\ batch_state'.task = batch_state.task
           /\ batch_state.status = "running")
              => batch_state'.status \in {"running", "complete", "cancelled", "error"}]_vars

\* C18: in the batch loop, when the evaluator returns neither a score nor a
\* verdict, the step ends the product run in error: its last event is
\* `error`, its record carries an error marker, and the history gets no entry
\* for that evaluation (the record holds the history as it was).
C18_NoAnswerIsAnError ==
    [][\A p \in DOMAIN tasks : \A answer \in AllAnswers :
           (/\ answer.score = NoneScore
            /\ answer.verdicts = <<>>
            /\ EvaluateReturns(p, answer))
           => /\ tasks'[p].pc = "done"
              /\ LastEventIs(p, "error")'
              /\ HasError(tasks'[p].result[1])
              /\ ~tasks'[p].result[1].passed
              /\ tasks'[p].evaluation_history = tasks[p].evaluation_history
              /\ tasks'[p].result[1].evaluation_history = tasks[p].evaluation_history
              /\ tasks'[p].result[1].attempts = Len(tasks[p].evaluation_history)]_vars

\* A product run ended in the evaluator's error at its second attempt: its
\* history holds the first attempt only, and no entry with score 0.
C18_Witness ==
    \E p \in DOMAIN tasks :
        /\ tasks[p].pc = "done"
        /\ HasError(ResultOf(p))
        /\ ResultOf(p).error = "Evaluation infrastructure error"
        /\ tasks[p].attempt = 2
        /\ Len(ResultOf(p).evaluation_history) = 1
        /\ ResultOf(p).evaluation_history[1].score > 0
        /\ LastEventIs(p, "error")

\* History after is history before with one more entry, of this score.
Recorded(before, after, score) ==
    /\ Len(after) = Len(before) + 1
    /\ SubSeq(after, 1, Len(before)) = before
    /\ after[Len(after)].score = score

\* The service answered without a verdict list, or with an empty one.
NoVerdicts(answer) == answer.verdicts \in {<<>>, NoneRubricVerdicts}

\* C19: in both scorers a score that is not null is recorded unchanged; a
\* null score is recorded as 0 only when the answer holds at least one
\* verdict; a null score without verdicts is reported as an infrastructure
\* error and records no score at all.
C19_ScorerOnMissingScore ==
    [][/\ \A p \in DOMAIN tasks : \A answer \in AllAnswers :
              EvaluateReturns(p, answer)
              => IF answer.score # NoneScore
                 THEN Recorded(tasks[p].evaluation_history,
                               tasks'[p].evaluation_history, answer.score)
                 ELSE IF ~NoVerdicts(answer)
                 THEN Recorded(tasks[p].evaluation_history,
                               tasks'[p].evaluation_history, 0)
                 ELSE /\ tasks'[p].evaluation_history = tasks[p].evaluation_history
                      /\ tasks'[p].pc = "done"
                      /\ HasError(tasks'[p].result[1])
                      /\ tasks'[p].result[1].error = "Evaluation infrastructure error"
       /\ \A answer \in AllAnswers :
              RunGeckoEvaluation(answer)
              => LET before == Get(state, "evaluation_history", <<>>)
                     after  == Get(state', "evaluation_history", <<>>)
                 IN  IF answer.score # NoneScore
                     THEN /\ conv'.eval_status = "success"
                          /\ state'["gecko_score"] = answer.score
                          /\ Recorded(before, after, answer.score)
                     ELSE IF ~NoVerdicts(answer)
                     THEN /\ conv'.eval_status = "success"
                          /\ state'["gecko_score"] = 0
                          /\ Recorded(before, after, 0)
                     ELSE /\ conv'.eval_status = "error"
                          /\ state' = state]_vars

\* A session evaluation got verdicts without a score and recorded 0.
C19_Witness ==
    /\ mode = "conv"
    /\ conv.eval_status = "success"
    /\ Get(state, "gecko_score", NoneScore) = 0
    /\ Get(state, "rubric_verdicts", NoneVerdicts).failing = <<"color">>
    /\ Get(state, "evaluation_history", <<>>) # <<>>

\* The calls of generate_rubrics made so far in the evaluation.
RubricCalls == rubric.calls

\* The loop has been left: evaluate is next or done, or an error was raised.
RubricLoopLeft == rubric.pc \in {"evaluate", "evaluated", "raised"}

\* C20: in one evaluation generate_rubrics is called at least once and at
\* most 3 times; every call after the first follows a 429 error or an empty
\* result; after a non-empty result the loop is left for evaluate; a client
\* error other than 429, and a 429 at the third call, leave the evaluation
\* as the error raised, with no further call.
C20_RubricRetries ==
    mode = "rubric"
    => /\ Len(RubricCalls) <= 3
       /\ RubricLoopLeft => Len(RubricCalls) >= 1
       /\ \A i \in 2..Len(RubricCalls) :
              \/ RubricCalls[i - 1].kind = "empty"
              \/ /\ RubricCalls[i - 1].kind = "ClientError"
                 /\ RubricCalls[i - 1].status_code = 429
       /\ \A i \in DOMAIN RubricCalls :
              RubricCalls[i].kind = "rubrics"
              => /\ i = Len(RubricCalls)
                 /\ rubric.pc \in {"evaluate", "evaluated"}
                 /\ rubric.data_with_rubrics = "rubrics"
       /\ \A i \in DOMAIN RubricCalls :
              (/\ RubricCalls[i].kind = "ClientError"
               /\ RubricCalls[i].status_code # 429 \/ i = 3)
              => /\ i = Len(RubricCalls)
                 /\ rubric.pc = "raised"
                 /\ rubric.raised = <<RubricCalls[i]>>

\* Three calls were made: two rate-limit errors, then a third 429 that was
\* raised to the caller.
C20_Witness ==
    /\ mode = "rubric"
    /\ Len(RubricCalls) = 3
    /\ \A i \in 1..3 : RubricCalls[i] = [kind |-> "ClientError", status_code |-> 429]
    /\ rubric.pc = "raised"

\* The verdicts the service returned in an answer, none if the list is missing.
VerdictsOf(answer) == IF NoVerdicts(answer) THEN <<>> ELSE answer.verdicts

\* The texts of the verdicts at the positions in S, in the order of the positions.
TextsAt(verdicts, S) ==
    [k \in 1..Cardinality(S) |->
        verdicts[CHOOSE i \in S : Cardinality({j \in S : j < i}) = k - 1].text]

\* passing and failing are the partition of the answer's verdicts by their
\* judgment, each in the service's order.
Partitioned(answer, passing, failing) ==
    LET verdicts == VerdictsOf(answer)
        judged   == {i \in DOMAIN verdicts : verdicts[i].verdict \in {"True", "true", "TRUE"}}
    IN  /\ passing = TextsAt(verdicts, judged)
        /\ failing = TextsAt(verdicts, DOMAIN verdicts \ judged)
        /\ Len(passing) + Len(failing) = Len(verdicts)

\* The counts the scorer reports for the answer add up to its verdicts.
CountsAddUp(answer) ==
    LET result == Scored(answer)
    IN  /\ result.passing_count = Len(result.passing_verdicts)
        /\ result.failing_count = Len(result.failing_verdicts)
        /\ result.total_verdicts = result.passing_count + result.failing_count
        /\ result.total_verdicts = Len(VerdictsOf(answer))

\* C21: in both scorers every verdict of the answer goes to exactly one of
\* passing_verdicts and failing_verdicts: a true judgment to passing, anything
\* else to failing, each list in the service's order; and passing_count +
\* failing_count = total_verdicts = the number of verdicts returned.
C21_VerdictsPartitioned ==
    [][/\ \A p \in DOMAIN tasks : \A answer \in AllAnswers :
              (/\ EvaluateReturns(p, answer)
               /\ ~(answer.score = NoneScore /\ NoVerdicts(answer)))
              => LET history == tasks'[p].evaluation_history
                     entry   == history[Len(history)]
                 IN  /\ Partitioned(answer, entry.passing_verdicts, entry.failing_verdicts)
                     /\ CountsAddUp(answer)
       /\ \A answer \in AllAnswers :
              (/\ RunGeckoEvaluation(answer)
               /\ ~(answer.score = NoneScore /\ NoVerdicts(answer)))
              => LET history == state'["evaluation_history"]
                     entry   == history[Len(history)]
                 IN  /\ Partitioned(answer, entry.passing_verdicts, entry.failing_verdicts)
                     /\ Partitioned(answer, state'["rubric_verdicts"].passing,
                                    state'["rubric_verdicts"].failing)
                     /\ CountsAddUp(answer)]_vars

\* A batch evaluation recorded two passing and two failing verdicts of an
\* answer whose judgments were True, None, "true" and False.
C21_Witness ==
    \E p \in DOMAIN tasks :
        /\ tasks[p].evaluation_history # <<>>
        /\ tasks[p].evaluation_history[1].passing_verdicts = <<"shape", "color">>
        /\ tasks[p].evaluation_history[1].failing_verdicts = <<"logo", "material">>

\* The instruction with the guidance of a retry: the failing verdicts and
\* the refined description after the base instruction.
GuidedInstruction(failing_verdicts, description) ==
    <<"RECONTEXTUALIZE", "IMPORTANT:">> \o JoinVerdicts(failing_verdicts)
        \o <<"Use this refined product description as guidance:">> \o description

\* The generate call i of task t carries the instruction its attempt calls
\* for: the base instruction at attempt 1, the guidance built from the
\* previous attempt's failing verdicts and the refined description after it.
InstructionAsSpecified(t, i) ==
    LET call == t.calls[i]
    IN  IF call.attempt = 1
        THEN call.text = <<"RECONTEXTUALIZE">>
        ELSE LET failing == t.evaluation_history[call.attempt - 1].failing_verdicts
                 refined == Refine(t.original_description, JoinVerdicts(failing))
             IN  call.text = GuidedInstruction(failing, refined)

\* C22: the generator gets the base instruction alone exactly at attempt 1;
\* at every later attempt the instruction also holds the refined description
\* and the failing verdicts of the previous attempt, whatever they are.
C22_GuidanceOnEveryRetry ==
    \A p \in DOMAIN tasks :
        \A i \in CallsOf(tasks[p].calls, "generate") :
            InstructionAsSpecified(tasks[p], i)

\* The same, for retries that follow an attempt with failing verdicts.
C22_GuidanceAfterFailingVerdicts ==
    \A p \in DOMAIN tasks :
        \A i \in CallsOf(tasks[p].calls, "generate") :
            LET k == tasks[p].calls[i].attempt
            IN  (k > 1 => tasks[p].evaluation_history[k - 1].failing_verdicts # <<>>)
                => InstructionAsSpecified(tasks[p], i)

\* The generate call of task p fails in this step: the service raises or
\* the response holds no image.
GenerationFails(p) ==
    /\ tasks[p].pc = "generate"
    /\ ServiceRaises(p) \/ GenerateReturnsNoImage(p)

\* C23: when the candidate generation of a product fails at any attempt,
\* the run ends in that step as an error: its last event is `error`, its
\* record carries an error marker and is not passed, no call is added; and
\* a task that has returned issues no call and changes no more.
C23_GenerationFailureIsAnError ==
    [][\A p \in DOMAIN tasks :
           /\ GenerationFails(p)
                  => /\ tasks'[p].pc = "done"
                     /\ LastEventIs(p, "error")'
                     /\ HasError(tasks'[p].result[1])
                     /\ ~tasks'[p].result[1].passed
                     /\ tasks'[p].calls = tasks[p].calls
           /\ (tasks[p].pc = "done" /\ p \in DOMAIN tasks')
                  => tasks'[p] = tasks[p]]_vars

\* A run ended in error when its third generation failed: two evaluations,
\* two refinements and three generate calls were made, none after the failure.
C23_Witness ==
    \E p \in DOMAIN tasks :
        /\ tasks[p].pc = "done"
        /\ HasError(ResultOf(p))
        /\ ResultOf(p).error = "service error"
        /\ tasks[p].calls[Len(tasks[p].calls)].op = "generate"
        /\ tasks[p].attempt = MAX_RETRIES
        /\ LastEventIs(p, "error")

\* C24 as stated: when the generator returns no image at attempt k, the
\* attempt is consumed like a low score: with attempts remaining the refiner
\* is called next and attempt k+1 follows; at the last attempt the run fails.
C24_NoImageConsumesARetry ==
    [][\A p \in DOMAIN tasks :
           GenerateReturnsNoImage(p)
           => IF tasks[p].attempt < MAX_RETRIES
              THEN /\ tasks'[p].pc = "refine"
                   /\ tasks'[p].calls[Len(tasks'[p].calls)].op = "refine"
              ELSE /\ tasks'[p].pc = "done"
                   /\ LastEventIs(p, "failed")']_vars

\* C24, amended: when the generator returns no image at attempt k, the run
\* ends in that step as an error: the event is `error`, the record carries
\* the generator's message and the k-1 entries of the earlier attempts, and
\* no refine call and no attempt k+1 follow.
C24_NoImageEndsTheRun ==
    [][\A p \in DOMAIN tasks :
           GenerateReturnsNoImage(p)
           => /\ tasks'[p].pc = "done"
              /\ tasks'[p].attempt = tasks[p].attempt
              /\ tasks'[p].calls = tasks[p].calls
              /\ LastEventIs(p, "error")'
              /\ tasks'[p].result[1].error = "No image was generated by the model."
              /\ tasks'[p].result[1].evaluation_history = tasks[p].evaluation_history
              /\ tasks'[p].result[1].attempts = tasks[p].attempt - 1]_vars

\* The generator returned no image at attempt 2 of a run: the record holds
\* the first attempt only and the run made one refine call.
C24_Witness ==
    \E p \in DOMAIN tasks :
        /\ tasks[p].pc = "done"
        /\ HasError(ResultOf(p))
        /\ ResultOf(p).error = "No image was generated by the model."
        /\ tasks[p].attempt = 2
        /\ ResultOf(p).attempts = 1
        /\ Cardinality(CallsOf(tasks[p].calls, "refine")) = 1

\* History after extends history before.
Extends(before, after) ==
    /\ Len(after) >= Len(before)
    /\ SubSeq(after, 1, Len(before)) = before

\* Task p leaves its current attempt in this step: to the refiner, to the
\* next attempt or to its end.
LeavesAttempt(p) ==
    /\ tasks[p].pc \in {"generate", "evaluate"}
    /\ tasks'[p].pc \in {"refine", "done", "generate"}
    /\ tasks'[p] # tasks[p]

\* C25: the history of a product run only grows by appending; and when a run
\* leaves an attempt, whatever the attempt's outcome (pass, fail or error),
\* the history holds the entry of that attempt.
C25_EveryAttemptRecorded ==
    [][/\ \A p \in DOMAIN tasks :
              (p \in DOMAIN tasks' /\ NoCancelPending)
              => /\ Extends(tasks[p].evaluation_history, tasks'[p].evaluation_history)
                 /\ LeavesAttempt(p)
                        => /\ Len(tasks'[p].evaluation_history) = tasks[p].attempt
                           /\ tasks'[p].evaluation_history[tasks[p].attempt].attempt
                                  = tasks[p].attempt
       /\ \A answer \in AllAnswers :
              RunGeckoEvaluation(answer)
              => LET before == Get(state, "evaluation_history", <<>>)
                     after  == Get(state', "evaluation_history", <<>>)
                 IN  /\ Extends(before, after)
                     /\ Len(after) = Len(before) + 1]_vars

\* The same for the attempts that were scored: the history only grows, and
\* an attempt that passed or scored low is recorded when the run leaves it.
C25_ScoredAttemptsRecorded ==
    [][/\ \A p \in DOMAIN tasks :
              (p \in DOMAIN tasks' /\ NoCancelPending)
              => /\ Extends(tasks[p].evaluation_history, tasks'[p].evaluation_history)
                 /\ (/\ LeavesAttempt(p)
                     /\ tasks'[p].pc = "done" => ~HasError(tasks'[p].result[1]))
                        => /\ Len(tasks'[p].evaluation_history) = tasks[p].attempt
                           /\ tasks'[p].evaluation_history[tasks[p].attempt].attempt
                                  = tasks[p].attempt
       /\ \A answer \in AllAnswers :
              RunGeckoEvaluation(answer)
              => LET before == Get(state, "evaluation_history", <<>>)
                     after  == Get(state', "evaluation_history", <<>>)
                 IN  /\ Extends(before, after)
                     /\ conv'.eval_status = "success" => Len(after) = Len(before) + 1]_vars

\* Task p returns a record with an error marker in this step.
ReturnsErrorRecord(p) ==
    /\ p \in DOMAIN tasks'
    /\ tasks[p].pc # "done"
    /\ tasks'[p].pc = "done"
    /\ HasError(tasks'[p].result[1])

\* C26: the record of a cancelled or errored run holds the history as it had
\* accumulated when the cancellation or error came: the entries of the
\* attempts 1..n whose evaluation had completed, in order and unchanged.
C26_PartialHistoryKept ==
    [][\A p \in DOMAIN tasks :
           ReturnsErrorRecord(p)
           => LET record == tasks'[p].result[1]
                  done   == Cardinality(CallsOf(tasks[p].calls, "evaluate"))
                                - (IF tasks[p].pc = "evaluate" THEN 1 ELSE 0)
              IN  /\ record.evaluation_history = tasks[p].evaluation_history
                  /\ Len(record.evaluation_history) = done
                  /\ record.attempts = done
                  /\ \A i \in DOMAIN record.evaluation_history :
                         record.evaluation_history[i].attempt = i]_vars

\* A run was cancelled during its third attempt and returned the two
\* attempts it had evaluated.
C26_Witness ==
    \E p \in DOMAIN tasks :
        /\ tasks[p].pc = "done"
        /\ HasError(ResultOf(p))
        /\ ResultOf(p).error = "cancelled"
        /\ Len(ResultOf(p).evaluation_history) = 2
        /\ ResultOf(p).evaluation_history[2].attempt = 2

\* Call i of the log follows the call the order of the loop puts before it.
InLoopOrder(t, i) ==
    LET call == t.calls[i]
        prev == t.calls[i - 1]
    IN  IF i = 1 THEN call.op = "describe"
        ELSE IF call.op = "generate"
        THEN /\ call.attempt \in 1..MAX_RETRIES
             /\ IF call.attempt = 1 THEN prev.op = "describe"
                ELSE prev.op = "refine" /\ prev.attempt = call.attempt - 1
        ELSE IF call.op = "evaluate"
        THEN prev.op = "generate" /\ prev.attempt = call.attempt
        ELSE IF call.op = "refine"
        THEN /\ prev.op = "evaluate" /\ prev.attempt = call.attempt
             /\ call.attempt < MAX_RETRIES
             /\ Len(t.evaluation_history) >= call.attempt
             /\ t.evaluation_history[call.attempt].score < PASSING_THRESHOLD
        ELSE FALSE

\* C27: the calls of a product run are a describe call, then for each
\* attempt a generate and an evaluate call, with a refine call between two
\* attempts; a refine call follows only an attempt below the threshold that
\* is not the last, and a generate call after the first follows only a
\* refine call; a run that ended passed or failed after n attempts made n
\* generate, n evaluate and n-1 refine calls.
C27_CallsInLoopOrder ==
    \A p \in DOMAIN tasks :
        /\ \A i \in DOMAIN tasks[p].calls : InLoopOrder(tasks[p], i)
        /\ (tasks[p].pc = "done" /\ ~HasError(ResultOf(p)))
               => LET n == ResultOf(p).attempts
                  IN  /\ Cardinality(CallsOf(tasks[p].calls, "generate")) = n
                      /\ Cardinality(CallsOf(tasks[p].calls, "evaluate")) = n
                      /\ Cardinality(CallsOf(tasks[p].calls, "refine")) = n - 1
                      /\ Len(tasks[p].calls) = 3 * n

\* A run failed after three attempts: nine calls, two of them to the refiner.
C27_Witness ==
    \E p \in DOMAIN tasks :
        /\ tasks[p].pc = "done"
        /\ ~HasError(ResultOf(p))
        /\ ~ResultOf(p).passed
        /\ ResultOf(p).attempts = MAX_RETRIES
        /\ Len(tasks[p].calls) = 9
        /\ Cardinality(CallsOf(tasks[p].calls, "refine")) = 2

\* The run_batch task of batch b was created and has not ended.
Unfinished(b) == runBatch[b].pc \in {"created", "gather"}

\* A batch task is not done when the request arrives.
BatchRunning == batch_state.exists /\ Unfinished(batch_state.task)

AtMostOneUnfinished == Cardinality({b \in 1..MaxBatches : Unfinished(b)}) <= 1

\* C28: batch_start answers 409 while a batch task is not done, 400 when the
\* request names neither a prefix with run_all nor image URIs, and 400 when
\* the URIs resolve to none; a rejected request creates no task and leaves
\* the batch state and everything else of the batch as it was; a request is
\* accepted in none of these cases, so at most one batch task is unfinished.
C28_StartRejections ==
    [][/\ \A req \in Requests :
              batch_start_rejected(req)
              => /\ IF BatchRunning
                    THEN /\ response'.status_code = 409
                         /\ response'.error = "A batch is already running."
                    ELSE IF req.kind = "none"
                    THEN /\ response'.status_code = 400
                         /\ response'.error = "No images specified."
                    ELSE /\ req.n = 0
                         /\ response'.status_code = 400
                         /\ response'.error = "No images found."
                 /\ batchVars' = batchVars
       /\ \A req \in Requests :
              batch_start(req)
              => /\ ~BatchRunning
                 /\ req.kind # "none"
                 /\ req.n > 0
                 /\ response # Unobserved => response'.status_code = 200
       /\ AtMostOneUnfinished
       /\ AtMostOneUnfinished']_vars

\* A request was answered 409 while the batch it found was running its
\* product task.
C28_Witness ==
    /\ response.status_code = 409
    /\ BatchRunning
    /\ \E p \in DOMAIN tasks : InTry(tasks[p])

\* all_products after this step.
AllProductsAfter == Get(state', "all_products", <<>>)

\* The state a product starts from: attempt 1, no history, not passed.
StartsClean(s) ==
    /\ s["attempt"] = 1
    /\ s["evaluation_history"] = <<>>
    /\ s["evaluation_passed"] = FALSE

\* C29: in a session, the step that completes a product's evaluation
\* pipeline appends one record to all_products, made of the SKU, the
\* reference URIs, the ground-truth description, the history and the passed
\* flag as the state holds them, keeps the earlier records, and resets the
\* state of the product; no other step changes all_products; and a product
\* starts with attempt 1, an empty history and passed = False.
C29_OneRecordPerProduct ==
    [][/\ SaveProductResults
              => /\ Len(AllProductsAfter) = Len(AllProducts) + 1
                 /\ SubSeq(AllProductsAfter, 1, Len(AllProducts)) = AllProducts
                 /\ LET record == AllProductsAfter[Len(AllProductsAfter)]
                    IN  /\ record.sku_id = state["sku_id"]
                        /\ record.image_uris = state["image_uris"]
                        /\ record.ground_truth_description
                               = state["ground_truth_description"]
                        /\ record.evaluation_history = state["evaluation_history"]
                        /\ record.evaluation_passed = state["evaluation_passed"]
                 /\ StartsClean(state')
       /\ ~SaveProductResults => AllProductsAfter = AllProducts
       /\ InitializeEvaluation => StartsClean(state')]_vars

\* Two products were saved in one session: the first failed after three
\* attempts, the second passed, and the state is reset.
C29_Witness ==
    /\ Len(AllProducts) = 2
    /\ ~AllProducts[1].evaluation_passed
    /\ Len(AllProducts[1].evaluation_history) = MAX_RETRIES
    /\ AllProducts[2].evaluation_passed
    /\ AllProducts[1].sku_id # AllProducts[2].sku_id
    /\ state["evaluation_history"] = <<>>

\* C30: two product tasks of a batch that were given distinct reference
\* URIs carry distinct SKU ids, in the tasks and in the events they put.
C30_SkuIdsDistinct ==
    \A p, q \in DOMAIN tasks :
        (p # q /\ tasks[p].uri # tasks[q].uri)
        => /\ tasks[p].sku_id # tasks[q].sku_id
           /\ \A i \in DOMAIN progress_queue.events[p] :
                  \A j \in DOMAIN progress_queue.events[q] :
                      progress_queue.events[p][i].sku # progress_queue.events[q][j].sku

\* The product run of position p has been created and has not returned.
Pending(p) == p \in DOMAIN tasks /\ tasks[p].pc # "done"

\* The batch whose product runs are in tasks has been cancelled.
BatchCancelled == batch_state.exists /\ runBatch[batch_state.task].cancel

\* C31: every product run that was created eventually returns its record
\* (passed, failed, errored or cancelled); none stays pending, and a task
\* waiting for the semaphore is eventually admitted.
C31_EveryRunReturns ==
    \A p \in 1..SemUris :
        Pending(p) ~> (p \in DOMAIN tasks /\ tasks[p].pc = "done")

\* The product runs of a batch that is never cancelled all return, and the
\* tasks waiting for the semaphore are admitted.
C31_ReturnsUnlessCancelled ==
    \A p \in 1..SemUris :
        /\ Pending(p) ~> ((p \in DOMAIN tasks /\ tasks[p].pc = "done") \/ BatchCancelled)
        /\ (p \in DOMAIN tasks /\ tasks[p].pc = "wait_sem")
               ~> ((p \in DOMAIN tasks /\ InsideSem(tasks[p])) \/ BatchCancelled)

\* The evaluate calls of a list of calls.
EvaluateCalls(calls) == {i \in DOMAIN calls : calls[i].op = "evaluate"}

\* The evaluate call was given the candidate generated in its own attempt.
PairedWithCandidate(call, sku_id) == call.aux = CandidateUri(sku_id, call.attempt)

\* C32: in the batch loop and in the conversational loop, every call of the
\* evaluator has the ground-truth description as its prompt and the
\* candidate of the same attempt as its image.
C32_EvaluatedAgainstGroundTruth ==
    /\ \A p \in DOMAIN tasks :
           \A i \in EvaluateCalls(tasks[p].calls) :
               /\ tasks[p].calls[i].text = Describe(tasks[p].uri)
               /\ PairedWithCandidate(tasks[p].calls[i], tasks[p].sku_id)
    /\ \A i \in EvaluateCalls(conv.calls) :
           /\ conv.calls[i].text = Describe(UriAt(conv.products))
           /\ PairedWithCandidate(conv.calls[i], Stem(UriAt(conv.products)))

\* The conversational loop does evaluate against the ground truth, and both
\* loops pair the prompt with the candidate of the same attempt; the batch
\* loop's prompt is the description the candidate was generated from.
C32_ConversationalAgainstGroundTruth ==
    /\ \A i \in EvaluateCalls(conv.calls) :
           /\ conv.calls[i].text = Describe(UriAt(conv.products))
           /\ PairedWithCandidate(conv.calls[i], Stem(UriAt(conv.products)))
    /\ \A p \in DOMAIN tasks :
           \A i \in EvaluateCalls(tasks[p].calls) :
               LET call == tasks[p].calls[i]
               IN  /\ PairedWithCandidate(call, tasks[p].sku_id)
                   /\ call.attempt = 1 => call.text = Describe(tasks[p].uri)
                   /\ call.attempt > 1 =>
                          call.text = Refine(Describe(tasks[p].uri),
                                             JoinVerdicts(tasks[p].evaluation_history[call.attempt - 1].failing_verdicts))

\* run_gecko_evaluation returns its infrastructure error in this step.
EvaluationErrors ==
    \E answer \in AllAnswers : InfrastructureError(answer) /\ RunGeckoEvaluation(answer)

\* The keys an evaluation writes are as they were.
EvaluationKeysUnchanged ==
    \A key \in {"gecko_score", "rubric_verdicts", "failing_verdicts_text",
                "evaluation_history"} :
        /\ (key \in DOMAIN state') = (key \in DOMAIN state)
        /\ key \in DOMAIN state => state'[key] = state[key]

\* The evaluation of the current attempt returned the infrastructure error
\* and the evaluation agent has not gone on yet.
AfterEvaluationError == mode = "conv" /\ conv.pc = "check" /\ conv.eval_status = "error"

\* C33: in the conversational loop an evaluation that reports the
\* infrastructure error writes none of gecko_score, rubric_verdicts,
\* failing_verdicts_text and evaluation_history, and no pass, retry or fail
\* decision is then taken for that attempt: the run stops there.
C33_EvaluationErrorIsHard ==
    [][/\ EvaluationErrors => EvaluationKeysUnchanged
       /\ AfterEvaluationError => (decisions' = {} /\ conv'.pc = "idle")]_vars

\* The first half holds: the error return precedes every write.
C33_EvaluationErrorWritesNothing ==
    [][EvaluationErrors => (state' = state /\ conv'.eval_status = "error")]_vars

\* The record of the product that was evaluated last.
LastProduct == AllProducts[Len(AllProducts)]

\* C34: the summary of the report step names the SKU, the verdict and the
\* final score of the product that was just evaluated.
C34_ReportSummarisesTheProduct ==
    \A i \in DOMAIN conv.report :
        LET summary == conv.report[i]
            history == LastProduct.evaluation_history
        IN  /\ summary.sku_id = LastProduct.sku_id
            /\ summary.evaluation_passed = LastProduct.evaluation_passed
            /\ history # <<>> => summary.gecko_score = history[Len(history)].score

\* What the summary does hold: the values save_product_results left.
C34_ReportSummarisesTheReset ==
    \A i \in DOMAIN conv.report :
        /\ conv.report[i].sku_id = "<None>"
        /\ conv.report[i].evaluation_passed = FALSE
        /\ conv.report[i].gecko_score = NoneScore

\* C35: the completion handler of batch b writes its results and its final
\* status into the state record that holds the task of batch b, and the
\* results a record gets are those of the task it holds.
C35_StoresIntoOwnRecord ==
    [][\A b \in 1..MaxBatches :
           StoreResults(b)
               => /\ batch_state.task = b
                  /\ batch_state'.results.set
                         => batch_state'.results.value = runBatch[batch_state'.task].results]_vars

\* What the handler does: it writes the outcome of its task into the record
\* that is current when it resumes.
C35_StoresIntoCurrentRecord ==
    [][\A b \in 1..MaxBatches :
           StoreResults(b)
               => /\ batch_state'.task = batch_state.task
                  /\ runBatch[b].pc = "done" =>
                         /\ batch_state'.status = "complete"
                         /\ batch_state'.results = [set |-> TRUE, value |-> runBatch[b].results]
                  /\ runBatch[b].pc = "cancelled" => batch_state'.status = "cancelled"]_vars

\* The product tasks inside `async with sem`.
Holders == {p \in DOMAIN tasks : InsideSem(tasks[p])}

\* C36: the permits held are those of the tasks inside the guarded section,
\* whichever way tasks have left it, and once every batch task that was
\* started has ended all SemPermits permits are available.
C36_NoPermitLeaks ==
    /\ sem = SemPermits - Cardinality(Holders)
    /\ sem \in 0..SemPermits
    /\ (\A b \in Started : TaskDone(b)) => sem = SemPermits

\* A cancelled batch of more images than permits: five tasks left the
\* guarded section by cancellation, one never entered it.
C36_Witness ==
    /\ Len(tasks) = SemUris
    /\ runBatch[1].pc = "cancelled"
    /\ Cardinality({p \in DOMAIN tasks :
                       /\ tasks[p].pc = "done"
                       /\ ResultOf(p).error = "cancelled"}) = SemPermits
    /\ tasks[SemUris].pc = "cancelled"
    /\ sem = SemPermits

\* The entries of a history are numbered 1, 2, ... in order.
Numbered(history) == \A i \in DOMAIN history : history[i].attempt = i

\* The batch half: the histories of the product tasks are numbered without
\* gaps and every returned record counts its history.
C37_BatchAttemptsNumbered ==
    /\ \A p \in DOMAIN tasks : Numbered(tasks[p].evaluation_history)
    /\ \A p \in Returned :
           /\ Numbered(ResultOf(p).evaluation_history)
           /\ ResultOf(p).attempts = Len(ResultOf(p).evaluation_history)

\* C37: in the batch loop and in the conversational loop the i-th entry of
\* the attempt history carries attempt number i, and every record returned
\* by process_image has attempts equal to the length of its history.
C37_AttemptsNumbered ==
    /\ C37_BatchAttemptsNumbered
    /\ Numbered(SessionHistory)
    /\ \A i \in DOMAIN AllProducts : Numbered(AllProducts[i].evaluation_history)

\* The history is not empty and its last score reaches the threshold.
LastScorePasses(history) ==
    history # <<>> /\ history[Len(history)].score >= PASSING_THRESHOLD

\* C38: a record saved in all_products has evaluation_passed exactly when
\* its history is not empty and the last score in it reaches
\* PASSING_THRESHOLD.
C38_SavedVerdictMatchesLastScore ==
    \A i \in DOMAIN AllProducts :
        AllProducts[i].evaluation_passed
            <=> LastScorePasses(AllProducts[i].evaluation_history)

\* A product that passed at its second attempt, then a product whose
\* evaluations all failed to run: its record has an empty history.
C38_Witness ==
    /\ Len(AllProducts) = 2
    /\ AllProducts[1].evaluation_passed
    /\ Len(AllProducts[1].evaluation_history) = 2
    /\ AllProducts[1].evaluation_history[1].score < PASSING_THRESHOLD
    /\ AllProducts[2].evaluation_history = <<>>
    /\ ~AllProducts[2].evaluation_passed

\* A cancellation was requested and the cancelled batch task is not done.
CancelPending == \E b \in 1..MaxBatches : runBatch[b].cancel /\ ~TaskDone(b)

\* C39: batch_cancel answers 404 and changes nothing when there is no batch
\* or its task is done; otherwise it requests the cancellation of the batch
\* task and sets the status to cancelled; while the cancelled task is not
\* done batch_start answers 409, and when a batch is started no product
\* task of an earlier batch is still running.
C39_CancelThenStart ==
    [][/\ batch_cancel_rejected
              => /\ ~BatchRunning
                 /\ response'.status_code = 404
                 /\ response'.error = "No batch running."
                 /\ batchVars' = batchVars
       /\ batch_cancel
              => /\ BatchRunning
                 /\ runBatch'[batch_state.task].cancel
                 /\ runBatch'[batch_state.task].pc = runBatch[batch_state.task].pc
                 /\ batch_state'.status = "cancelled"
                 /\ batch_state'.task = batch_state.task
                 /\ tasks' = tasks
       /\ CancelPending => \A req \in Requests : StartResponse(req) = 409
       /\ \A req \in Requests :
              batch_start(req)
              => /\ ~CancelPending
                 /\ \A p \in DOMAIN tasks : Ended(tasks[p])]_vars

\* A request to start was answered 409 after a cancellation was accepted
\* and before the cancelled batch task was done.
C39_Witness ==
    /\ response.status_code = 409
    /\ CancelPending
    /\ batch_state.status = "cancelled"
    /\ \E p \in DOMAIN tasks : InTry(tasks[p])

=============================================================================
